---- MODULE Spec2Model ----
(***************************************************************************)
(* Model of the incremental crawl pipeline of trustmed-ai:                 *)
(*   - RedditPublicCollector (data_collection/scripts/                     *)
(*     collect_reddit_public.py): collect_threads, collect_subreddit_posts,*)
(*     _process_post, _load_existing_data, _save_incremental, save_data,   *)
(*     and the per-topic body of main;                                     *)
(*   - combine_files.py: combine_json_files, combine_csv_files, main.      *)
(* One topic (disease_name) is modelled; the glob patterns of the code     *)
(* keep the artifacts of different topics apart.                           *)
(***************************************************************************)
EXTENDS Integers, Sequences, FiniteSets, TLC

(* ------------------------------ bounds -------------------------------- *)
\* posts per listing page (the code asks for limit=25 per page)
PageSize == 1
\* max_pages of the 'hot' and 'top' sweeps (15 in the code)
MaxPagesHotTop == 1
\* max_pages of the 'new' sweep (10 in the code)
MaxPagesNew == 1
\* additional_count passed by main (500 in the code)
additional_count == 2
\* save_interval of collect_threads (25 in the code)
save_interval == 1
\* runs of combine_files.main in one behaviour
MaxCombines == 2
\* save_interval passed to fetch_comments_for_file (25 in the code)
fetch_save_interval == 2
\* limit passed to scrape_subreddit (100 in the code)
scrape_limit == 4
\* the post elements a page of the site holds at most
ElementsPerPage == 2
\* the nesting of replies in the comment trees the site returns
MaxRawDepth == 3
\* limit passed to get_post_comments (30 in the code)
comment_limit == 1
\* the posts one listing of a subreddit yields at most
ListingSize == 1
\* disease_area['target_count'] (500 in the code)
topic_target_count == 2
\* max_pages of a sweep of the sweep-level model (15 / 15 / 10 in the code)
SweepPages == 2
\* the most threads collect_threads returns for a topic in the model of main
MaxTopicThreads == 3
\* the threshold of main (total_threads >= 500 in the code)
min_total_threads == 3
\* the most articles articles_metadata.json holds when a scraper starts
MaxPriorArticles == 1
\* target of the run of an article scraper (200)
run_target == 2
\* the sources of a run
NumSources == 2
\* the candidate urls of one source
SourceUrls == 2
\* the least articles_per_source of scrape_all (5)
min_per_source == 2
\* max_articles that run of DeepScraper and EasyScraper passes (30 to 80)
fixed_max_articles == 2
\* the most threads a function that writes the two forms is given
MaxSavedThreads == 2
\* the most threads of a combined artifact that prepare_upload reads
MaxForumThreads == 2
\* the most answers without a terminal state that a waiting sync_kb gets
MaxPolls == 2

(* ------------------------- static configuration ----------------------- *)
\* DISEASE_AREAS[disease_name]['subreddits'], in configuration order
Subreddits == <<"s1", "s2">>

SubredditSet == {Subreddits[i] : i \in DOMAIN Subreddits}

Sorts == <<"hot", "top", "new">>

max_pages(sort) == IF sort = "new" THEN MaxPagesNew ELSE MaxPagesHotTop

\* limit=375 / 375 / 250 of the three sweeps: max_pages full pages
limit(sort) == max_pages(sort) * PageSize

(* ------------------------------ data ---------------------------------- *)
\* post ids; the code only compares them. NoId stands for a record
\* without a usable 'id'
Ids == {1, 2, 3}

NoId == 0

\* post titles; "" stands for a record without a usable 'title'
Titles == {"", "t"}

\* raw post records of a listing page: 'id', 'title' and 'subreddit'
Posts == [id : Ids \cup {NoId}, title : Titles, subreddit : SubredditSet]

RECURSIVE SeqsUpTo(_, _)
SeqsUpTo(S, n) ==
    IF n = 0 THEN {<<>>}
    ELSE LET shorter == SeqsUpTo(S, n - 1)
         IN shorter \cup {Append(s, x) : s \in {t \in shorter : Len(t) = n - 1}, x \in S}

\* what make_request returns for a listing of r/<sub>: None or a payload
\* without 'data' (failed), or the children, which carry the name of the
\* subreddit they were posted in, and whether an 'after' token is present.
\* collect_threads copies the title and never reads it: the posts of a
\* listing are the titled ones
Failure == [failed |-> TRUE, children |-> <<>>, after |-> FALSE]

Responses(sub) ==
    {Failure} \cup
    [failed : {FALSE},
     children : SeqsUpTo({p \in Posts : p.subreddit = sub /\ p.title # ""},
                         PageSize),
     after : BOOLEAN]

Min(S) == CHOOSE x \in S : \A y \in S : x <= y

\* Ids are opaque to the code, so the ids the remote has not returned
\* before are named in order of first appearance: a listing is a sequence
\* of records whose id is absent, already known, or the least unknown id
RECURSIVE InOrderOfAppearance(_, _)
InOrderOfAppearance(children, known) ==
    IF children = <<>> THEN TRUE
    ELSE LET id == Head(children).id
         IN /\ \/ id \in known \cup {NoId}
               \/ Ids \ known # {} /\ id = Min(Ids \ known)
            /\ InOrderOfAppearance(Tail(children), known \cup ({id} \ {NoId}))

IdSet(ths) == {ths[i].id : i \in DOMAIN ths}

NoDup(ths) == \A i, j \in DOMAIN ths : ths[i].id = ths[j].id => i = j

Prefix(s, t) == Len(s) <= Len(t) /\ \A i \in DOMAIN s : s[i] = t[i]

VARIABLES
    disk,               \* durable artifacts in OUTPUT_DIR (JSON form)
    clock,              \* wall clock: file timestamps and mtimes
    pc,                 \* position of the running process
    threads,            \* collect_threads: threads
    seen_ids,           \* collect_threads: seen_ids
    scraped_subreddits, \* collect_threads: scraped_subreddits
    initial_count,      \* collect_threads: initial_count
    last_save_count,    \* collect_threads: last_save_count
    sub_idx,            \* index into available_subreddits
    sort_idx,           \* which of the three sweeps of the subreddit
    posts,              \* collect_subreddit_posts: posts; from "process"
                        \* on, the posts the for loop has not yet visited
    visited,            \* the post the for loop visited last, if any,
                        \* and the outcome of its test against seen_ids
    collected,          \* collect_subreddit_posts: collected
    page_count,         \* collect_subreddit_posts: page_count
    prior,              \* history: the threads loaded at the start
    arrived,            \* history: the unseen ids of the listings, in order
    requested,          \* history: subreddits a request was made to
    supplied,           \* history: usable ids the requests returned
                        \* that are not in seen_ids
    flushed,            \* history: data of the last flush of this run
    combines,           \* runs of combine_files.main so far
    combined_inputs,    \* history: artifacts read by the last combine
    previous,           \* history: results of the combine before the last
    all_threads,        \* combine_json_files: result of the last combine
    all_rows,           \* combine_csv_files: result of the last combine
    json_files,         \* fetch_comments main: files not yet processed
    json_file,          \* fetch_comments_for_file: the file being processed
    needing,            \* threads_needing_comments not yet visited, as
                        \* positions in threads
    processed,          \* fetch_comments_for_file: processed
    last_save,          \* fetch_comments_for_file: last_save
    fetcher,            \* the class whose request loop is running
    attempt,            \* make_request, get_page: attempts started so far
    log,                \* the requests sent and the sleeps taken, in order
    result,             \* what the request loop has returned, if it has
    html_posts,         \* scrape_subreddit: posts
    html_seen_ids,      \* scrape_subreddit: seen_ids
    html_page_count,    \* scrape_subreddit: page_count
    html_pc,            \* scrape_subreddit: in its loop or returned
    normalizer,         \* the normalizing function that is called
    raw,                \* its argument, a raw post or a raw comment list
    depth,              \* get_post_comments: depth
    returned,           \* the function has returned
    item,               \* what it returned: no, one or several records
    collector,          \* the class whose collect_threads is running
    coll_threads,       \* collect_threads: threads (all_threads)
    coll_seen_ids,      \* collect_threads: seen_ids
    coll_sub,           \* position in disease_area['subreddits']
    coll_sort,          \* position in the sort methods of the subreddit
    attempted,          \* history: the subreddits collect_threads turned to
    failed,             \* history: the subreddits a sweep of which failed
    kept,               \* history: threads at the latest failure
    coll_pc,            \* public collector: fetching pages or accepting
    coll_pages,         \* history: the responses to the requests of the sweep
    coll_posts,         \* posts of collect_subreddit_posts
    coll_page_count,    \* page_count of collect_subreddit_posts
    file_threads,       \* history: threads as read from json_file
    fetched_for,        \* history: positions get_post_comments was called for
    completed,          \* history: the threads that calls of
                        \* fetch_comments_for_file which returned have
                        \* fetched for, and whether comments were found
    refetched,          \* history: the threads among them that a later
                        \* call has fetched for again
    program,            \* the script whose main is running
    main_pc,            \* position of main
    disease_idx,        \* position in DISEASE_AREAS
    topic_threads,      \* len(threads) of the topic at hand
    all_results,        \* all_results[disease_name]['count']
    exit_status,        \* exit status of the process, NoStatus while it runs
    started,            \* history: topics collect_threads was called for
    topic_counts,       \* history: threads collected per topic
    scraper,            \* the article scraper class that is running
    articles_collected, \* self.articles_collected
    metadata_file,      \* content of articles_metadata.json
    article_files,      \* the .txt files of output_dir
    recorded_urls,      \* history: urls of articles_metadata.json at start
    requested_urls,     \* history: urls requested over HTTP in this run
    saved_urls,         \* history: urls saved in this run
    output_dir,         \* combine_files: the artifacts of each topic
    merge_pc,           \* combine_files.main: position
    merge_idx,          \* combine_files.main: which topic's block
    merged,             \* history: the combined files main has written
    runner,             \* the article scraper class whose run is modelled
    run_pc,             \* position of the run
    source_idx,         \* which source of the run
    max_articles,       \* max_articles of the source being scraped
    articles_found,     \* the count of the source being scraped
    urls_left,          \* candidate urls the source has not yet tried
    n_articles,         \* len(self.articles_collected)
    start_count,        \* len(self.articles_collected) when the run began
    fetched_at_target,  \* history: an article was requested at the target
    saver,              \* the function that writes the two forms
    save_threads,       \* its argument threads
    save_pc,            \* "call" before it runs, "saved" after
    json_out,           \* the threads of the JSON file it wrote
    csv_out,            \* the rows of the CSV file it wrote
    auth_metadata,      \* prepare_upload: articles_metadata.json
    forum_src,          \* the combined artifacts under FORUM_SRC
    manifest_file,      \* the entries of to_upload/manifest.json
    manifest_entries,   \* _manifest_entries
    outputs,            \* the files written under to_upload/ in the run
    upload_pc,          \* position of run
    forum_idx,          \* which of FORUM_FILES
    thread_idx,         \* position of the loop in process_forum_file
    written,            \* process_forum_file: written
    sync_args,          \* sync_kb: the arguments of the process
    sync_pc,            \* position of main
    job_id,             \* main: job_id, <<>> before the job is started
    started_status,     \* main: status of the start response
    status,             \* wait_for_job_completion: status
    observed,           \* the statuses the polls returned, in order
    aws_error,          \* a ClientError or BotoCoreError was raised
    sync_exit         \* <<>> while running, then <<the exit status>>

vars == <<disk, clock, pc, threads, seen_ids, scraped_subreddits,
          initial_count, last_save_count, sub_idx, sort_idx, posts, visited,
          collected, page_count, prior, arrived, requested, supplied, flushed,
          combines, combined_inputs, previous, all_threads, all_rows,
          json_files, json_file, needing, processed, last_save,
          fetcher, attempt, log, result,
          html_posts, html_seen_ids, html_page_count, html_pc,
          normalizer, raw, depth, returned, item,
          collector, coll_threads, coll_seen_ids, coll_sub, coll_sort,
          attempted, failed, kept, coll_pc, coll_pages, coll_posts,
          coll_page_count, file_threads, fetched_for, completed, refetched,
          program, main_pc,
          disease_idx, topic_threads,
          all_results, exit_status, started, topic_counts, scraper,
          articles_collected, metadata_file, article_files, recorded_urls,
          requested_urls, saved_urls,
          output_dir, merge_pc, merge_idx, merged,
          runner, run_pc, source_idx, max_articles, articles_found,
          urls_left, n_articles, start_count, fetched_at_target,
          saver, save_threads, save_pc, json_out, csv_out,
          auth_metadata, forum_src, manifest_file, manifest_entries,
          outputs, upload_pc, forum_idx, thread_idx, written,
          sync_args, sync_pc, job_id, started_status, status, observed,
          aws_error, sync_exit>>

combine_vars ==
    <<combines, combined_inputs, previous, all_threads, all_rows>>

\* the variables of collect_threads other than threads, and its histories
run_vars ==
    <<seen_ids, scraped_subreddits, initial_count, last_save_count, sub_idx,
      sort_idx, posts, visited, collected, page_count, prior, arrived,
      requested, supplied, flushed>>

fetch_vars ==
    <<json_files, json_file, needing, processed, last_save, file_threads,
      fetched_for, completed, refetched>>

request_vars == <<fetcher, attempt, log, result>>

scrape_vars == <<html_posts, html_seen_ids, html_page_count, html_pc>>

normalize_vars == <<normalizer, raw, depth, returned, item>>

collect_vars ==
    <<collector, coll_threads, coll_seen_ids, coll_sub, coll_sort, attempted,
      failed, kept, coll_pc, coll_pages, coll_posts, coll_page_count>>

main_vars ==
    <<program, main_pc, disease_idx, topic_threads, all_results, exit_status,
      started, topic_counts>>

article_vars ==
    <<scraper, articles_collected, metadata_file, article_files,
      recorded_urls, requested_urls, saved_urls>>

merge_vars == <<output_dir, merge_pc, merge_idx, merged>>

\* the variables of the programs of the last sections
article_run_vars ==
    <<runner, run_pc, source_idx, max_articles, articles_found, urls_left,
      n_articles, start_count, fetched_at_target>>

save_vars == <<saver, save_threads, save_pc, json_out, csv_out>>

upload_vars ==
    <<auth_metadata, forum_src, manifest_file, manifest_entries, outputs,
      upload_pc, forum_idx, thread_idx, written>>

sync_vars ==
    <<sync_args, sync_pc, job_id, started_status, status, observed,
      aws_error, sync_exit>>

tail_vars ==
    <<merge_vars, article_run_vars, save_vars, upload_vars, sync_vars>>

\* the variables of the programs of the later sections
later_vars == <<collect_vars, main_vars, article_vars, tail_vars>>

\* the variables of the programs of the earlier sections
first_vars ==
    <<disk, clock, pc, threads, run_vars, combine_vars, fetch_vars,
      request_vars, scrape_vars, normalize_vars>>

\* the variables one call of collect_threads leaves alone
beside_collect == <<first_vars, main_vars, article_vars, tail_vars>>

\* the variables main leaves alone in the model of its loop over topics
beside_main == <<first_vars, collect_vars, article_vars, tail_vars>>

\* the variables an article scraper leaves alone
beside_articles == <<first_vars, collect_vars, main_vars, tail_vars>>

\* the variables of the programs of the sections before the last ones
old_vars == <<first_vars, collect_vars, main_vars, article_vars>>

\* the variables combine_files.main leaves alone in the model of its
\* two blocks
beside_merge ==
    <<old_vars, article_run_vars, save_vars, upload_vars, sync_vars>>

\* the variables the run of an article scraper leaves alone
beside_article_run ==
    <<old_vars, merge_vars, save_vars, upload_vars, sync_vars>>

\* the variables a function that writes the two forms leaves alone
beside_save ==
    <<old_vars, merge_vars, article_run_vars, upload_vars, sync_vars>>

\* the variables prepare_upload leaves alone
beside_upload ==
    <<old_vars, merge_vars, article_run_vars, save_vars, sync_vars>>

\* the variables sync_kb leaves alone
beside_sync ==
    <<old_vars, merge_vars, article_run_vars, save_vars, upload_vars>>

\* the variables neither the collector nor the merge touches
other_vars ==
    <<fetch_vars, request_vars, scrape_vars, normalize_vars, later_vars>>

(* ------------------------- durable artifacts -------------------------- *)
\* An artifact is a record [kind, form, ts, ok, data]:
\*   kind "final"    <topic>_threads_<ts>.<form>              (save_data)
\*   kind "incr_ts"  <topic>_threads_incremental_<ts>.<form>  (_save_incremental)
\*   kind "incr"     <topic>_threads_incremental.<form>
\*   kind "combined" <topic>_threads_combined.<form>          (combine main)
\* form is "json" (structured) or "csv" (tabular), ts is the timestamp of
\* the write (name suffix and mtime), ok tells whether the file holds
\* complete, parseable content, data is the list of items or rows it holds.
Kinds == {"final", "incr_ts", "incr", "combined"}

Forms == {"json", "csv"}

File(kind, form, ts, data) ==
    [kind |-> kind, form |-> form, ts |-> ts, ok |-> TRUE, data |-> data]

\* 'incremental' in f
HasIncremental(f) == f.kind \in {"incr_ts", "incr"}

\* 'combined' in f
HasCombined(f) == f.kind = "combined"

\* variant: min instead of max, the least recently modified file
OldestFile(files) == CHOOSE f \in files : \A g \in files : f.ts <= g.ts

\* max(existing_files, key=os.path.getmtime)
LatestFile(files) == CHOOSE f \in files : \A g \in files : g.ts <= f.ts

\* existing_files of _load_existing_data: the glob <topic>_threads_*.json
\* without the names that contain 'incremental', plus the file
\* <topic>_threads_incremental.json when it exists
ExistingFiles(d) ==
    {f \in d : f.form = "json" /\ ~HasIncremental(f)}
        \cup {f \in d : f.form = "json" /\ f.kind = "incr"}

\* seen_ids = {thread['id'] for thread in threads}
SeedIds(ths) == {ths[i].id : i \in DOMAIN ths}

\* variant: no subreddit is taken from the loaded threads
NoneScraped(ths) == {}

\* scraped_subreddits = {thread.get('subreddit', '') for thread in threads ...}
SeedSubreddits(ths) == {ths[i].subreddit : i \in DOMAIN ths}

NothingLoaded == [threads |-> <<>>, seen_ids |-> {}, scraped_subreddits |-> {}]

\* _load_existing_data: (threads, seen_ids, scraped_subreddits)
LoadExistingData(d) ==
    IF ExistingFiles(d) = {} THEN NothingLoaded
    ELSE LET latest_file == LatestFile(ExistingFiles(d))
         IN IF latest_file.ok
            THEN [threads |-> latest_file.data,
                  seen_ids |-> SeedIds(latest_file.data),
                  scraped_subreddits |-> SeedSubreddits(latest_file.data)]
            ELSE NothingLoaded

\* variant: a row only for the threads that have comments
CsvRowsWithComments(ths) ==
    SelectSeq([i \in DOMAIN ths |->
                  [id |-> ths[i].id, title |-> ths[i].title,
                   subreddit |-> ths[i].subreddit,
                   num_collected_comments |-> Len(ths[i].comments)]],
              LAMBDA row : row.num_collected_comments > 0)

\* the csv_data rows built from the threads, one row per thread
CsvRows(ths) ==
    [i \in DOMAIN ths |->
        [id |-> ths[i].id, title |-> ths[i].title,
         subreddit |-> ths[i].subreddit,
         num_collected_comments |-> Len(ths[i].comments)]]

\* _save_incremental: writes <topic>_threads_incremental_<timestamp>.json
\* and the .csv summary of the same threads
SaveIncremental(d, ths, t) ==
    d \cup {File("incr_ts", "json", t, ths),
            File("incr_ts", "csv", t, CsvRows(ths))}

\* save_data: writes <topic>_threads_<timestamp>.json and .csv
SaveData(d, ths, t) ==
    d \cup {File("final", "json", t, ths),
            File("final", "csv", t, CsvRows(ths))}

(* --------------------------- collect_threads -------------------------- *)
\* variant: the filter on scraped_subreddits left out
EverySubreddit(scraped) == Subreddits

\* available_subreddits: the configured subreddits not yet scraped
AvailableSubreddits(scraped) ==
    SelectSeq(Subreddits, LAMBDA sub : sub \notin scraped)

target_count == initial_count + additional_count

subreddit_name == AvailableSubreddits(scraped_subreddits)[sub_idx]

\* _process_post: None (modelled as <<>>) without an id, else the thread
ProcessPost(post, sub) ==
    IF post.id = NoId THEN <<>>
    ELSE <<[id |-> post.id, title |-> post.title,
            subreddit |-> post.subreddit, comments |-> <<>>]>>

\* variant: the membership test left out
NotSeenSkipped(id, seen) == TRUE

\* post.get('id') not in seen_ids
NotSeen(id, seen) == id \notin seen

\* variant: the append without the seen_ids.add
RecordNothing(seen, id) == seen

\* seen_ids.add(post.get('id'))
Record(seen, id) == seen \cup {id}

\* variant: the 'top' and 'new' sweeps without their guard
BelowTargetSkipped(n, target) == TRUE

\* len(threads) < target_count, the guard of the 'top' and 'new' sweeps
BelowTarget(n, target) == n < target

\* variant: no save inside the for loop
IntervalNever(n, last) == FALSE

\* len(threads) - last_save_count >= save_interval
IntervalReached(n, last) == n - last >= save_interval

\* variant: the new thread put in front of the collection
AcceptedFirst(ths, thread) == thread \o ths

\* variant: the new thread takes the place of the last one
AcceptedOverLast(ths, thread) ==
    IF ths = <<>> \/ thread = <<>> THEN ths \o thread
    ELSE SubSeq(ths, 1, Len(ths) - 1) \o thread

\* threads.append(thread), for the thread as a sequence of one item
Accepted(ths, thread) == ths \o thread

Take(s, n) == SubSeq(s, 1, IF n < Len(s) THEN n ELSE Len(s))

\* the usable ids of the posts ps that are not in the set known, each
\* once and in the order of ps
RECURSIVE FirstReturned(_, _)
FirstReturned(ps, known) ==
    IF ps = <<>> THEN <<>>
    ELSE LET id == Head(ps).id
         IN IF id = NoId \/ id \in known
            THEN FirstReturned(Tail(ps), known)
            ELSE <<id>> \o FirstReturned(Tail(ps), known \cup {id})

UsableIds(ps) == {ps[i].id : i \in DOMAIN ps} \ {NoId}

IdsOnDisk(d) == UNION {IdSet(f.data) : f \in d}

Memory0 ==
    /\ threads' = <<>> /\ seen_ids' = {} /\ scraped_subreddits' = {}
    /\ initial_count' = 0 /\ last_save_count' = 0
    /\ sub_idx' = 1 /\ sort_idx' = 1 /\ posts' = <<>> /\ visited' = <<>>
    /\ collected' = 0 /\ page_count' = 0

\* the histories of a run that has ended
History0 ==
    /\ prior' = <<>> /\ requested' = {} /\ supplied' = {} /\ flushed' = <<>>
    /\ arrived' = <<>>

\* the artifacts earlier runs can have left in OUTPUT_DIR: at most two
\* snapshots, each with its .csv twin, written at times 1 and 2 by
\* save_data of a collector (final), _save_incremental of an interrupted
\* run (incr_ts), combine main (combined) or a save_data that was cut
\* while writing (final, not ok)
PriorItems ==
    {[id |-> 1, title |-> "t", subreddit |-> "s1", comments |-> <<>>],
     [id |-> 2, title |-> "t", subreddit |-> "s2", comments |-> <<>>]}

\* the items of the artifacts that are combined
MergeItems ==
    PriorItems \cup
        {[id |-> 3, title |-> "t", subreddit |-> "s1", comments |-> <<>>]}

\* an item of the artifacts that are combined as another snapshot holds
\* it, with the comments a later pass fetched for it
RefetchedItems ==
    {[id |-> 1, title |-> "t", subreddit |-> "s1", comments |-> <<"c">>]}

PriorContents(items) ==
    {c \in SeqsUpTo(items, 2) : c # <<>> /\ NoDup(c)}

Twins(kind, t, ths) ==
    {File(kind, "json", t, ths), File(kind, "csv", t, CsvRows(ths))}

Truncated(t) == [File("final", "json", t, <<>>) EXCEPT !.ok = FALSE]

PriorSnapshots(items, t) ==
    {Twins(kind, t, c) : kind \in {"final", "incr_ts", "combined"},
                         c \in PriorContents(items)}
        \cup {{Truncated(t)}}

\* there is one <topic>_threads_combined.json at most
OneCombined(d) ==
    \A f, g \in d : f.kind = "combined" /\ g.kind = "combined" => f.ts = g.ts

PriorDisks(items) ==
    {{}} \cup PriorSnapshots(items, 1)
         \cup {d \in {a \cup b : a \in PriorSnapshots(items, 1),
                                  b \in PriorSnapshots(items, 2)} :
                 OneCombined(d)}

\* the disks a collector run is started on: the older of two snapshots
\* is one that save_data wrote
RunDisks ==
    {d \in PriorDisks(PriorItems) :
        \A f \in d : f.ts = 1 /\ (\E g \in d : g.ts = 2) => f.kind = "final" /\ f.ok}

\* the disks combine_files.main is started on
MergeDisks == PriorDisks(MergeItems \cup RefetchedItems)

\* json_file while no file is being processed
NoFile == [kind |-> "none", ts |-> 0]

\* the timestamps of the prior snapshots; the modelled process starts later
PriorTimes == {1, 2}

FirstClock == Cardinality(PriorTimes) + 1

Memory ==
    /\ clock = FirstClock /\ pc = "idle"
    /\ threads = <<>> /\ seen_ids = {} /\ scraped_subreddits = {}
    /\ initial_count = 0 /\ last_save_count = 0
    /\ sub_idx = 1 /\ sort_idx = 1 /\ posts = <<>> /\ visited = <<>>
    /\ collected = 0 /\ page_count = 0
    /\ prior = <<>> /\ requested = {} /\ supplied = {} /\ flushed = <<>>
    /\ arrived = <<>>
    /\ combines = 0 /\ combined_inputs = {} /\ previous = <<>>
    /\ all_threads = <<>> /\ all_rows = <<>>
    /\ json_files = {} /\ json_file = NoFile /\ needing = <<>>
    /\ processed = 0 /\ last_save = 0
    /\ file_threads = <<>> /\ fetched_for = {}
    /\ completed = {} /\ refetched = {}

\* no request loop is running
NoRequest ==
    fetcher = "none" /\ attempt = 0 /\ log = <<>> /\ result = "none"

\* scrape_subreddit is not running
NoScrape ==
    /\ html_posts = <<>> /\ html_seen_ids = {} /\ html_page_count = 0
    /\ html_pc = "none"

\* no normalizer is called
NoRecord ==
    /\ normalizer = "none" /\ raw = <<>> /\ depth = 0
    /\ returned = FALSE /\ item = <<>>

\* no collect_threads of the sweep-level model is running
NoCollect ==
    /\ collector = "none" /\ coll_threads = <<>> /\ coll_seen_ids = {}
    /\ coll_sub = 1 /\ coll_sort = 1
    /\ attempted = {} /\ failed = {} /\ kept = <<>>
    /\ coll_pc = "fetch" /\ coll_pages = <<>> /\ coll_posts = <<>>
    /\ coll_page_count = 0

\* the exit status while the process runs
NoStatus == -1

\* no main of the model of the loop over topics is running
NoMain ==
    /\ program = "none" /\ main_pc = "none" /\ disease_idx = 1
    /\ topic_threads = 0 /\ all_results = <<>> /\ exit_status = NoStatus
    /\ started = {} /\ topic_counts = <<>>

\* no article scraper is running
NoArticles ==
    /\ scraper = "none" /\ articles_collected = <<>> /\ metadata_file = <<>>
    /\ article_files = {} /\ recorded_urls = {} /\ requested_urls = {}
    /\ saved_urls = {}

\* no main of combine_files of the model of its two blocks is running
NoMerge ==
    /\ output_dir = <<>> /\ merge_pc = "none" /\ merge_idx = 1
    /\ merged = {}

\* the programs of the last sections are not running
\* no run of an article scraper is going on
NoArticleRun ==
    /\ runner = "none" /\ run_pc = "none" /\ source_idx = 1
    /\ max_articles = 0 /\ articles_found = 0 /\ urls_left = 0
    /\ n_articles = 0 /\ start_count = 0 /\ fetched_at_target = FALSE

\* no function that writes the two forms is called
NoSave ==
    /\ saver = "none" /\ save_threads = <<>> /\ save_pc = "none"
    /\ json_out = <<>> /\ csv_out = <<>>

\* prepare_upload is not running
NoUpload ==
    /\ auth_metadata = <<>> /\ forum_src = <<>> /\ manifest_file = <<>>
    /\ manifest_entries = <<>> /\ outputs = {} /\ upload_pc = "none"
    /\ forum_idx = 1 /\ thread_idx = 1 /\ written = 0

\* sync_kb is not running
NoSync ==
    /\ sync_args = <<>> /\ sync_pc = "none" /\ job_id = <<>>
    /\ started_status = "UNKNOWN" /\ status = "UNKNOWN" /\ observed = <<>>
    /\ aws_error = FALSE /\ sync_exit = <<>>

NoTail == NoMerge /\ NoArticleRun /\ NoSave /\ NoUpload /\ NoSync

\* the programs of the later sections are not running
Elsewhere == NoCollect /\ NoMain /\ NoArticles /\ NoTail

Init ==
    /\ disk \in RunDisks /\ Memory /\ NoRequest /\ NoScrape /\ NoRecord
    /\ Elsewhere

InitCombine ==
    /\ disk \in MergeDisks /\ Memory /\ NoRequest /\ NoScrape /\ NoRecord
    /\ Elsewhere

\* main starts collect_threads for the topic: lines 311-335
StartRun ==
    /\ pc = "idle"
    /\ LET loaded == LoadExistingData(disk)
       IN /\ threads' = loaded.threads
          /\ seen_ids' = loaded.seen_ids
          /\ scraped_subreddits' = loaded.scraped_subreddits
          /\ initial_count' = Len(loaded.threads)
          /\ last_save_count' = Len(loaded.threads)
          /\ prior' = loaded.threads
          /\ arrived' = <<>>
          /\ pc' = IF AvailableSubreddits(loaded.scraped_subreddits) = <<>>
                   THEN "returned" ELSE "loop"
    /\ sub_idx' = 1 /\ sort_idx' = 1 /\ posts' = <<>> /\ visited' = <<>>
    /\ collected' = 0 /\ page_count' = 0
    /\ UNCHANGED <<disk, clock, requested, supplied, flushed, combine_vars, other_vars>>

\* head of the for loop over available_subreddits (lines 338-348), and
\* the final save and return after the loop (lines 453-457)
LoopHead ==
    /\ pc = "loop"
    /\ IF sub_idx > Len(AvailableSubreddits(scraped_subreddits))
          \/ Len(threads) >= target_count
       THEN /\ pc' = "returned"
            /\ IF Len(threads) > last_save_count
               THEN /\ disk' = SaveIncremental(disk, threads, clock)
                    /\ clock' = clock + 1
                    /\ flushed' = threads
               ELSE UNCHANGED <<disk, clock, flushed>>
            /\ UNCHANGED <<sort_idx, posts, collected, page_count>>
       ELSE /\ pc' = "fetch"
            /\ sort_idx' = 1 /\ posts' = <<>>
            /\ collected' = 0 /\ page_count' = 0
            /\ UNCHANGED <<disk, clock, flushed>>
    /\ UNCHANGED <<threads, seen_ids, scraped_subreddits, initial_count,
                   last_save_count, sub_idx, visited, prior, arrived, requested, supplied,
                   combine_vars, other_vars>>

\* one iteration of the while loop of collect_subreddit_posts
\* (lines 143-185): one make_request and the handling of its result
FetchPage ==
    /\ pc = "fetch"
    /\ requested' = requested \cup {subreddit_name}
    /\ \E page \in Responses(subreddit_name) :
         /\ InOrderOfAppearance(page.children,
                                IdsOnDisk(disk) \cup seen_ids \cup supplied)
         /\ LET sort == Sorts[sort_idx]
                got == Take(page.children, limit(sort) - collected)
            IN IF page.failed \/ page.children = <<>>
               THEN /\ pc' = "process"
                    /\ UNCHANGED <<posts, collected, page_count, supplied,
                                   arrived>>
               ELSE /\ posts' = posts \o got
                    /\ arrived' =
                           arrived \o
                               FirstReturned(got,
                                   seen_ids \cup
                                       {arrived[i] : i \in DOMAIN arrived})
                    /\ collected' = collected + Len(got)
                    /\ supplied' = supplied \cup (UsableIds(got) \ seen_ids)
                    /\ IF ~page.after
                       THEN /\ pc' = "process"
                            /\ UNCHANGED page_count
                       ELSE /\ page_count' = page_count + 1
                            /\ pc' = IF collected' < limit(sort)
                                        /\ page_count' < max_pages(sort)
                                     THEN "fetch" ELSE "process"
    /\ UNCHANGED <<disk, clock, threads, seen_ids, scraped_subreddits,
                   initial_count, last_save_count, sub_idx, sort_idx, visited,
                   prior, flushed, combine_vars, other_vars>>

\* one iteration of the for loop over the posts of a sweep
\* (lines 350-369, 389-407, 426-444)
AcceptStep ==
    /\ pc = "process"
    /\ posts # <<>>
    /\ Len(threads) < target_count
    /\ posts' = Tail(posts)
    /\ visited' = <<[post |-> Head(posts),
                     fresh |-> NotSeen(Head(posts).id, seen_ids)]>>
    /\ LET id == Head(posts).id
           thread == ProcessPost(Head(posts), subreddit_name)
       IN IF NotSeen(id, seen_ids) /\ thread # <<>>
          THEN /\ threads' = Accepted(threads, thread)
               /\ seen_ids' = Record(seen_ids, id)
               /\ supplied' = supplied \ seen_ids'
               /\ IF IntervalReached(Len(threads'), last_save_count)
                  THEN /\ disk' = SaveIncremental(disk, threads', clock)
                       /\ clock' = clock + 1
                       /\ last_save_count' = Len(threads')
                       /\ flushed' = threads'
                  ELSE UNCHANGED <<disk, clock, last_save_count, flushed>>
          ELSE UNCHANGED <<threads, seen_ids, supplied, disk, clock,
                           last_save_count, flushed>>
    /\ UNCHANGED <<pc, scraped_subreddits, initial_count, sub_idx, sort_idx,
                   collected, page_count, prior, arrived, requested, combine_vars, other_vars>>

\* end of a sweep: the save after the batch and the guard of the next
\* sweep (lines 371-387, 409-424, 446-451)
EndSweep ==
    /\ pc = "process"
    /\ posts = <<>> \/ Len(threads) >= target_count
    /\ IF Len(threads) > last_save_count
       THEN /\ disk' = SaveIncremental(disk, threads, clock)
            /\ clock' = clock + 1
            /\ last_save_count' = Len(threads)
            /\ flushed' = threads
       ELSE UNCHANGED <<disk, clock, last_save_count, flushed>>
    /\ IF sort_idx < Len(Sorts) /\ BelowTarget(Len(threads), target_count)
       THEN /\ sort_idx' = sort_idx + 1
            /\ pc' = "fetch"
            /\ UNCHANGED sub_idx
       ELSE /\ sub_idx' = sub_idx + 1
            /\ sort_idx' = 1
            /\ pc' = "loop"
    /\ posts' = <<>> /\ visited' = <<>> /\ collected' = 0 /\ page_count' = 0
    /\ UNCHANGED <<threads, seen_ids, scraped_subreddits, initial_count,
                   prior, arrived, requested, supplied, combine_vars, other_vars>>

\* main after collect_threads returned: save_data when threads is not
\* empty (lines 676-689), then the process ends
MainSave ==
    /\ pc = "returned"
    /\ IF threads # <<>>
       THEN /\ disk' = SaveData(disk, threads, clock)
            /\ clock' = clock + 1
       ELSE UNCHANGED <<disk, clock>>
    /\ pc' = "done"
    /\ Memory0
    /\ UNCHANGED <<prior, arrived, requested, supplied, flushed, combine_vars,
                   other_vars>>

\* the process is killed while json.dump of save_data is writing
\* (lines 623-624): the file exists but does not hold complete JSON
CrashInSave ==
    /\ pc = "returned"
    /\ threads # <<>>
    /\ disk' = disk \cup {Truncated(clock)}
    /\ clock' = clock + 1
    /\ pc' = "crashed"
    /\ Memory0
    /\ UNCHANGED <<prior, arrived, requested, supplied, flushed, combine_vars,
                   other_vars>>

\* the process is interrupted between two steps; its memory is lost
Interrupt ==
    /\ pc \in {"loop", "fetch", "process", "returned"}
    /\ pc' = "killed"
    /\ Memory0
    /\ History0
    /\ UNCHANGED <<disk, clock, combine_vars, other_vars>>

(* ----------------------------- combine -------------------------------- *)
\* the orders in which glob.glob can list a set of files
Orders(S) ==
    {o \in [1..Cardinality(S) -> S] : \A i, j \in DOMAIN o : o[i] = o[j] => i = j}

\* variant: json_files without the test for 'combined'
JsonFilesWithCombined(d) == {f \in d : f.form = "json" /\ ~HasIncremental(f)}

\* json_files of combine_json_files (lines 20-21)
JsonFiles(d) ==
    {f \in d : f.form = "json" /\ ~HasIncremental(f) /\ ~HasCombined(f)}

\* csv_files of combine_csv_files (lines 54-55)
CsvFiles(d) ==
    {f \in d : f.form = "csv" /\ ~HasIncremental(f) /\ ~HasCombined(f)}

\* variant: break instead of passing over a thread whose id was seen
RECURSIVE MergeThreadsUntilSeen(_, _)
MergeThreadsUntilSeen(acc, ths) ==
    IF ths = <<>> THEN acc
    ELSE LET thread == Head(ths)
         IN IF thread.id # NoId /\ thread.id \notin IdSet(acc)
            THEN MergeThreadsUntilSeen(Append(acc, thread), Tail(ths))
            ELSE acc

\* variant: the thread of a later file replaces the one kept for its id
RECURSIVE MergeThreadsReplacing(_, _)
MergeThreadsReplacing(acc, ths) ==
    IF ths = <<>> THEN acc
    ELSE LET thread == Head(ths)
         IN MergeThreadsReplacing(
                IF thread.id = NoId THEN acc
                ELSE IF thread.id \notin IdSet(acc) THEN Append(acc, thread)
                ELSE [i \in DOMAIN acc |->
                         IF acc[i].id = thread.id THEN thread ELSE acc[i]],
                Tail(ths))

\* the loop over the threads of one JSON file (lines 38-44)
RECURSIVE MergeThreads(_, _)
MergeThreads(acc, ths) ==
    IF ths = <<>> THEN acc
    ELSE LET thread == Head(ths)
         IN MergeThreads(IF thread.id # NoId /\ thread.id \notin IdSet(acc)
                         THEN Append(acc, thread) ELSE acc,
                         Tail(ths))

\* variant: the try around the loop, so that the first file json.load
\* cannot read ends it
RECURSIVE CombineJsonFilesUntilError(_)
CombineJsonFilesUntilError(order) ==
    IF order = <<>> THEN <<>>
    ELSE LET n == Len(order)
             acc == CombineJsonFilesUntilError(SubSeq(order, 1, n - 1))
         IN IF \A i \in 1..n : order[i].ok
            THEN MergeThreads(acc, order[n].data) ELSE acc

\* the loop over json_files (lines 31-49); a file that json.load cannot
\* read is reported and skipped
RECURSIVE CombineJsonFiles(_)
CombineJsonFiles(order) ==
    IF order = <<>> THEN <<>>
    ELSE LET n == Len(order)
             acc == CombineJsonFiles(SubSeq(order, 1, n - 1))
         IN IF order[n].ok THEN MergeThreads(acc, order[n].data) ELSE acc

\* the loop over the rows of one CSV file (lines 76-82)
RECURSIVE MergeRows(_, _)
MergeRows(acc, rows) ==
    IF rows = <<>> THEN acc
    ELSE LET row == Head(rows)
         IN MergeRows(IF row.id # NoId /\ row.id \notin IdSet(acc)
                      THEN Append(acc, row) ELSE acc,
                      Tail(rows))

\* the loop over csv_files (lines 65-89)
RECURSIVE CombineCsvFiles(_)
CombineCsvFiles(order) ==
    IF order = <<>> THEN <<>>
    ELSE LET n == Len(order)
             acc == CombineCsvFiles(SubSeq(order, 1, n - 1))
         IN IF order[n].ok THEN MergeRows(acc, order[n].data) ELSE acc

\* open(<topic>_threads_combined.<form>, 'w') and dump: replaces the file
WriteCombined(d, form, data, t) ==
    {f \in d : ~(f.kind = "combined" /\ f.form = form)}
        \cup {File("combined", form, t, data)}

\* combine_files.main for the topic (lines 102-118): the JSON artifacts,
\* then the CSV artifacts, each listed by glob in some order. Without
\* any CSV artifact combine_csv_files returns a single None and the
\* unpacking at line 110 raises: the combined JSON is written by then
\* and no combined CSV is, which is what this action leaves on disk
CombineMain ==
    /\ pc = "idle" /\ combines < MaxCombines
    /\ combines' = combines + 1
    /\ \E jorder \in Orders(JsonFiles(disk)), corder \in Orders(CsvFiles(disk)) :
         LET threads_out == CombineJsonFiles(jorder)
             rows_out == CombineCsvFiles(corder)
             d1 == IF threads_out # <<>>
                   THEN WriteCombined(disk, "json", threads_out, clock)
                   ELSE disk
             d2 == IF rows_out # <<>>
                   THEN WriteCombined(d1, "csv", rows_out, clock)
                   ELSE d1
         IN /\ disk' = d2
            /\ all_threads' = threads_out
            /\ all_rows' = rows_out
    /\ combined_inputs' = JsonFiles(disk) \cup CsvFiles(disk)
    /\ previous' = <<all_threads, all_rows>>
    /\ clock' = clock + 1
    /\ UNCHANGED <<pc, threads, seen_ids, scraped_subreddits,
                   initial_count, last_save_count, sub_idx, sort_idx, posts,
                   visited, collected, page_count, prior, arrived, requested, supplied,
                   flushed, other_vars>>

(* --------------------------- fetch_comments --------------------------- *)
\* what get_post_comments can return for a thread: no comment (also on
\* any failure) or a list of comments
CommentLists == {<<>>, <<"c">>}

\* the name of an artifact without its extension
Name(f) == [kind |-> f.kind, ts |-> f.ts]

\* main: glob of *_threads_*.json without the names that contain
\* 'incremental'
FetchableFiles(d) == {f \in d : f.form = "json" /\ ~HasIncremental(f)}

\* variant: every thread of the file
EveryThread(ths) == [i \in DOMAIN ths |-> i]

\* threads_needing_comments, as positions in threads: the threads of the
\* artifacts have a 'url', and a 'num_collected_comments' above 0 only
\* with comments
NeedingComments(ths) ==
    SelectSeq([i \in DOMAIN ths |-> i], LAMBDA i : ths[i].comments = <<>>)

\* variant: the files are left as they were
SaveFileNothing(d, ths, name) == d

\* _save_file: rewrites json_file in place, and the .csv of the same name
\* when it exists
SaveFile(d, ths, name) ==
    LET json == {f \in d : Name(f) = name /\ f.form = "json"}
        csv == {f \in d : Name(f) = name /\ f.form = "csv"}
    IN (d \ (json \cup csv))
           \cup {File(name.kind, "json", name.ts, ths)}
           \cup {File(name.kind, "csv", name.ts, CsvRows(ths)) : f \in csv}

\* _save_file cut while json.dump writes into the file it has just
\* truncated (cut = "json"), or after it while to_csv writes (cut = "csv")
CutSaveFile(d, ths, name, cut) ==
    {IF Name(f) = name /\ f.form = cut
     THEN [f EXCEPT !.ok = FALSE, !.data = <<>>]
     ELSE f : f \in IF cut = "json" THEN d ELSE SaveFile(d, ths, name)}

\* main of fetch_comments, started once no collector is running, for the
\* first time or again after a run that ended
FetcherMain ==
    /\ pc \in {"done", "crashed", "killed", "fetched"}
    /\ json_files' = FetchableFiles(disk)
    /\ pc' = "files"
    /\ UNCHANGED <<disk, clock, threads, json_file, needing, processed,
                   last_save, file_threads, fetched_for, completed,
                   refetched, run_vars, combine_vars, request_vars,
                   scrape_vars, normalize_vars, later_vars>>

\* fetch_comments_for_file up to its loop, for the next file of main
FetchFile ==
    /\ pc = "files"
    /\ \E f \in json_files :
         /\ json_files' = json_files \ {f}
         /\ IF f.ok /\ NeedingComments(f.data) # <<>>
            THEN /\ threads' = f.data
                 /\ json_file' = Name(f)
                 /\ needing' = NeedingComments(f.data)
                 /\ file_threads' = f.data
                 /\ pc' = "comments"
            ELSE UNCHANGED <<threads, json_file, needing, file_threads, pc>>
    /\ processed' = 0 /\ last_save' = 0 /\ fetched_for' = {}
    /\ UNCHANGED <<disk, clock, completed, refetched, run_vars, combine_vars, request_vars,
                   scrape_vars, normalize_vars, later_vars>>

\* one turn of the loop over threads_needing_comments
FetchThread ==
    /\ pc = "comments" /\ needing # <<>>
    /\ \E comments \in CommentLists :
         threads' = [threads EXCEPT ![Head(needing)].comments = comments]
    /\ needing' = Tail(needing)
    /\ fetched_for' = fetched_for \cup {Head(needing)}
    /\ refetched' =
           refetched \cup
               {c \in completed : /\ c.name = json_file
                                  /\ c.id = threads[Head(needing)].id}
    /\ processed' = processed + 1
    /\ IF processed' - last_save >= fetch_save_interval
       THEN /\ disk' = SaveFile(disk, threads', json_file)
            /\ last_save' = processed'
       ELSE UNCHANGED <<disk, last_save>>
    /\ UNCHANGED <<clock, pc, json_files, json_file, file_threads, completed,
                   run_vars, combine_vars, request_vars,
                   scrape_vars, normalize_vars, later_vars>>

\* the final save of fetch_comments_for_file and its return to main
FetchFileEnd ==
    /\ pc = "comments" /\ needing = <<>>
    /\ IF processed > last_save
       THEN disk' = SaveFile(disk, threads, json_file)
       ELSE UNCHANGED disk
    /\ pc' = "files"
    /\ threads' = <<>> /\ json_file' = NoFile
    /\ processed' = 0 /\ last_save' = 0
    /\ file_threads' = <<>> /\ fetched_for' = {}
    /\ completed' =
           {c \in completed :
               ~(c.name = json_file
                 /\ \E i \in fetched_for : threads[i].id = c.id)}
             \cup {[name |-> json_file, id |-> threads[i].id,
                    found |-> threads[i].comments # <<>>] :
                       i \in fetched_for}
    /\ UNCHANGED <<clock, json_files, needing, refetched, run_vars, combine_vars, request_vars,
                   scrape_vars, normalize_vars, later_vars>>

\* the process is killed inside the final _save_file
CrashInSaveFile ==
    /\ pc = "comments" /\ needing = <<>> /\ processed > last_save
    /\ \E cut \in Forms : disk' = CutSaveFile(disk, threads, json_file, cut)
    /\ pc' = "cut"
    /\ threads' = <<>>
    /\ UNCHANGED <<clock, json_files, json_file, needing, processed,
                   last_save, file_threads, fetched_for, completed,
                   refetched, run_vars, combine_vars, request_vars,
                   scrape_vars, normalize_vars, later_vars>>

\* main has processed every file
FetcherExit ==
    /\ pc = "files" /\ json_files = {}
    /\ pc' = "fetched"
    /\ UNCHANGED <<disk, clock, threads, fetch_vars, run_vars, combine_vars, request_vars,
                   scrape_vars, normalize_vars, later_vars>>


Next ==
    \/ StartRun
    \/ LoopHead
    \/ FetchPage
    \/ AcceptStep
    \/ EndSweep
    \/ MainSave
    \/ CrashInSave
    \/ Interrupt

\* one run of collect_reddit_public.main for the topic, started with the
\* artifacts of earlier runs on disk
Spec == Init /\ [][Next]_vars

NextCombine == CombineMain

\* runs of combine_files.main over the artifacts of earlier runs
SpecCombine == InitCombine /\ [][NextCombine]_vars

NextPipeline ==
    \/ Next
    \/ FetcherMain
    \/ FetchFile
    \/ FetchThread
    \/ FetchFileEnd
    \/ CrashInSaveFile
    \/ FetcherExit

\* a fresh OUTPUT_DIR
InitPipeline ==
    /\ disk = {} /\ Memory /\ NoRequest /\ NoScrape /\ NoRecord
    /\ Elsewhere

\* one run of the collector in a fresh directory, then one run of
\* fetch_comments main over what it left
SpecPipeline == InitPipeline /\ [][NextPipeline]_vars

(* ---------------------------- request loops --------------------------- *)
\* the default of the parameter max_retries of the three request loops
max_retries == 3

\* RedditPublicCollector, CommentFetcher and RedditHTMLScraper
Fetchers == {"public", "comments", "html"}

\* what one attempt can meet: a response that parses, HTTP 429, HTTP 403,
\* another HTTP error, or any other exception (timeout, network error,
\* payload that does not parse)
Outcomes == {"ok", "429", "403", "http", "error"}

Request(o) == [type |-> "request", outcome |-> o, secs |-> 0]

Sleep(why, secs) == [type |-> "sleep", outcome |-> why, secs |-> secs]

\* what the handlers of an attempt do: sleep (0: no sleep) and then either
\* go on with the loop or return
Retry(secs) == [secs |-> secs, returns |-> "none"]

Return(value) == [secs |-> 0, returns |-> value]

\* variant: the loop never runs out of attempts
AttemptsAlways(k) == TRUE

\* for attempt in range(max_retries), attempt = k
AttemptsRemain(k) == k < max_retries

\* variant: no backoff
NoBackoff(f) == 0

\* the factor of wait_time = (attempt + 1) * ... on HTTP 429
base_backoff(f) ==
    CASE f = "public" -> 30
      [] f = "comments" -> 60
      [] f = "html" -> 10

\* variant: the same wait at every attempt
ForbiddenWaitFixed(k) == 3

\* RedditPublicCollector.make_request: wait_time = (attempt + 1) * 3
ForbiddenWait(k) == (k + 1) * 3

\* the except clauses of RedditPublicCollector.make_request for the
\* attempt numbered k from 0
MakeRequestHandlers(o, k) ==
    CASE o = "ok" -> Return("data")
      [] o = "429" -> Retry((k + 1) * base_backoff("public"))
      [] o = "403" -> IF k < max_retries - 1
                      THEN Retry(ForbiddenWait(k))
                      ELSE Return("None")
      [] o = "http" -> Return("None")
      [] o = "error" -> IF k < max_retries - 1
                        THEN Retry(2)
                        ELSE Return("None")

\* the except clauses of CommentFetcher.make_request
CommentFetcherHandlers(o, k) ==
    CASE o = "ok" -> Return("data")
      [] o = "429" -> Retry((k + 1) * base_backoff("comments"))
      [] o = "403" -> Return("None")
      [] o = "http" -> IF k < max_retries - 1
                       THEN Retry(5)
                       ELSE Return("None")
      [] o = "error" -> IF k < max_retries - 1
                        THEN Retry(3)
                        ELSE Return("None")

\* the except clauses of RedditHTMLScraper.get_page
GetPageHandlers(o, k) ==
    CASE o = "ok" -> Return("data")
      [] o = "429" -> Retry((k + 1) * base_backoff("html"))
      [] o = "403" -> Retry(5)
      [] o = "http" -> IF k < max_retries - 1
                       THEN Retry(3)
                       ELSE Return("None")
      [] o = "error" -> IF k < max_retries - 1
                        THEN Retry(3)
                        ELSE Return("None")

\* get_page: time.sleep(random.uniform(2, 5)) before a retry and
\* time.sleep(random.uniform(1, 3)) before the first attempt; the value
\* drawn is one of the two ends
RandomDelays(k) == IF k > 0 THEN {2, 5} ELSE {1, 3}

\* one turn of a request loop: the events before the request, the request
\* with the outcome o, the handler h of the outcome, and the return None
\* that follows the loop when that was its last turn
Turn(before, o, h) ==
    /\ result = "none" /\ AttemptsRemain(attempt)
    /\ attempt' = attempt + 1
    /\ log' = before \o <<Request(o)>>
                  \o (IF h.secs > 0 THEN <<Sleep(o, h.secs)>> ELSE <<>>)
    /\ result' = IF h.returns = "none" /\ ~AttemptsRemain(attempt')
                 THEN "None"
                 ELSE h.returns
    /\ UNCHANGED fetcher

\* RedditPublicCollector.make_request
MakeRequest ==
    /\ fetcher = "public"
    /\ \E o \in Outcomes : Turn(log, o, MakeRequestHandlers(o, attempt))
    /\ UNCHANGED <<disk, clock, pc, threads, run_vars, combine_vars,
                   fetch_vars, scrape_vars, normalize_vars, later_vars>>

\* CommentFetcher.make_request
CommentFetcherMakeRequest ==
    /\ fetcher = "comments"
    /\ \E o \in Outcomes : Turn(log, o, CommentFetcherHandlers(o, attempt))
    /\ UNCHANGED <<disk, clock, pc, threads, run_vars, combine_vars,
                   fetch_vars, scrape_vars, normalize_vars, later_vars>>

\* RedditHTMLScraper.get_page
GetPage ==
    /\ fetcher = "html"
    /\ \E o \in Outcomes, secs \in RandomDelays(attempt) :
         Turn(log \o <<Sleep("polite", secs)>>, o,
              GetPageHandlers(o, attempt))
    /\ UNCHANGED <<disk, clock, pc, threads, run_vars, combine_vars,
                   fetch_vars, scrape_vars, normalize_vars, later_vars>>

NextRequest ==
    \/ MakeRequest
    \/ CommentFetcherMakeRequest
    \/ GetPage

\* the first call of a request loop in a process that has just started
InitRequest ==
    /\ disk = {} /\ Memory
    /\ fetcher \in Fetchers /\ attempt = 0 /\ log = <<>> /\ result = "none"
    /\ NoScrape /\ NoRecord /\ Elsewhere

\* one call of the request loop of one of the three classes
SpecRequest == InitRequest /\ [][NextRequest]_vars

(* ----------------------------- normalizers ---------------------------- *)
\* RedditHTMLScraper.extract_post_data: None (no record) when post_id or
\* title is missing, the post record otherwise
ExtractPostData(elem) ==
    IF elem.id = NoId \/ elem.title = ""
    THEN <<>>
    ELSE <<[id |-> elem.id, title |-> elem.title,
            subreddit |-> elem.subreddit]>>

\* the kinds of the children of a comment listing: a comment (t1) or the
\* 'more' stub
RawKinds == {"t1", "more"}

\* the raw comment objects whose replies nest at most n levels deep
RECURSIVE RawComments(_)
RawComments(n) ==
    {[kind |-> k, replies |-> r] :
        k \in RawKinds,
        r \in SeqsUpTo(IF n = 0 THEN {} ELSE RawComments(n - 1), 1)}

\* variant: replies are extracted at the depth limit too
WithinDepthInclusive(current_depth, max_depth) == current_depth <= max_depth

\* if current_depth < max_depth
WithinDepth(current_depth, max_depth) == current_depth < max_depth

\* extract_comment, and the loops that collect what it returns for a list
\* of raw objects; extract_comment returns None (no record) for an object
\* that is not a comment
RECURSIVE extract_comment(_, _, _), ExtractEach(_, _, _)
extract_comment(comment_obj, current_depth, max_depth) ==
    IF comment_obj.kind # "t1"
    THEN <<>>
    ELSE <<[body |-> "c",
            replies |-> IF WithinDepth(current_depth, max_depth)
                        THEN ExtractEach(comment_obj.replies,
                                         current_depth + 1, max_depth)
                        ELSE <<>>]>>

ExtractEach(objs, current_depth, max_depth) ==
    IF objs = <<>>
    THEN <<>>
    ELSE extract_comment(Head(objs), current_depth, max_depth)
             \o ExtractEach(Tail(objs), current_depth, max_depth)

\* variant: the listing is not cut
WholeListing(comment_data) == comment_data

\* comment_data[:limit]
TopLevel(comment_data) == Take(comment_data, comment_limit)

\* get_post_comments on the children of the listing the request returned
GetPostComments(comment_data, d) ==
    ExtractEach(TopLevel(comment_data), 0, d)

\* raw comments with up to two replies, each with at most one reply
WideComments ==
    {[kind |-> "t1", replies |-> r] : r \in SeqsUpTo(RawComments(1), 2)}

\* the depths get_post_comments is called with
Depths == 0 .. (MaxRawDepth - 1)

PostNormalizers == {"_process_post", "extract_post_data"}

CommentNormalizers ==
    {"RedditPublicCollector.get_post_comments",
     "CommentFetcher.get_post_comments"}

\* RedditPublicCollector._process_post(post, subreddit_name)
ProcessPostCall ==
    /\ normalizer = "_process_post" /\ ~returned
    /\ item' = ProcessPost(raw, raw.subreddit)
    /\ returned' = TRUE
    /\ UNCHANGED <<disk, clock, pc, threads, run_vars, combine_vars,
                   fetch_vars, request_vars, scrape_vars, later_vars,
                   normalizer, raw, depth>>

\* RedditHTMLScraper.extract_post_data(post_element)
ExtractPostDataCall ==
    /\ normalizer = "extract_post_data" /\ ~returned
    /\ item' = ExtractPostData(raw)
    /\ returned' = TRUE
    /\ UNCHANGED <<disk, clock, pc, threads, run_vars, combine_vars,
                   fetch_vars, request_vars, scrape_vars, later_vars,
                   normalizer, raw, depth>>

\* RedditPublicCollector.get_post_comments after its request
GetPostCommentsCall ==
    /\ normalizer = "RedditPublicCollector.get_post_comments" /\ ~returned
    /\ item' = GetPostComments(raw, depth)
    /\ returned' = TRUE
    /\ UNCHANGED <<disk, clock, pc, threads, run_vars, combine_vars,
                   fetch_vars, request_vars, scrape_vars, later_vars,
                   normalizer, raw, depth>>

\* CommentFetcher.get_post_comments after its request: the same code
CommentFetcherGetPostCommentsCall ==
    /\ normalizer = "CommentFetcher.get_post_comments" /\ ~returned
    /\ item' = GetPostComments(raw, depth)
    /\ returned' = TRUE
    /\ UNCHANGED <<disk, clock, pc, threads, run_vars, combine_vars,
                   fetch_vars, request_vars, scrape_vars, later_vars,
                   normalizer, raw, depth>>

NextNormalize ==
    \/ ProcessPostCall
    \/ ExtractPostDataCall
    \/ GetPostCommentsCall
    \/ CommentFetcherGetPostCommentsCall

\* a normalizer is called with a raw post, or with a raw comment listing
\* and a depth
InitNormalize ==
    /\ disk = {} /\ Memory /\ NoRequest /\ NoScrape /\ Elsewhere
    /\ returned = FALSE /\ item = <<>>
    /\ \/ /\ normalizer \in PostNormalizers
          /\ raw \in Posts
          /\ depth = 0
       \/ /\ normalizer \in CommentNormalizers
          /\ raw \in SeqsUpTo(RawComments(MaxRawDepth), 2)
                     \cup {<<obj>> : obj \in WideComments}
          /\ depth \in Depths

\* one call of one normalizer
SpecNormalize == InitNormalize /\ [][NextNormalize]_vars

(* -------------------------- scrape_subreddit -------------------------- *)
\* max_pages = (limit // 25) + 2
scrape_max_pages == (scrape_limit \div 25) + 2

\* the subreddit_name scrape_subreddit is called with
scrape_subreddit_name == Subreddits[1]

\* seen_ids after the URL of the page is built: for every page but the
\* first the expression seen_ids.pop() takes an arbitrary id out of the set
AfterUrl(seen, pages) ==
    IF pages > 0 /\ seen # {} THEN {seen \ {id} : id \in seen} ELSE {seen}

\* the loop over post_elements, from the state of the sweep so far
RECURSIVE ScanPage(_, _, _, _)
ScanPage(elems, ps, seen, page_posts) ==
    IF elems = <<>>
    THEN [posts |-> ps, seen_ids |-> seen, page_posts |-> page_posts]
    ELSE LET post_data == ExtractPostData(Head(elems))
         IN IF post_data # <<>> /\ post_data[1].id \notin seen
            THEN LET ps1 == Append(ps, [post_data[1] EXCEPT
                                  !.subreddit = scrape_subreddit_name])
                     seen1 == seen \cup {post_data[1].id}
                 IN IF Len(ps1) >= scrape_limit
                    THEN [posts |-> ps1, seen_ids |-> seen1,
                          page_posts |-> page_posts + 1]
                    ELSE ScanPage(Tail(elems), ps1, seen1, page_posts + 1)
            ELSE ScanPage(Tail(elems), ps, seen, page_posts)

\* one turn of the while loop of scrape_subreddit. No post element stands
\* for a page that get_page failed to fetch as well: both break the loop
ScrapePage ==
    /\ html_pc = "loop"
    /\ Len(html_posts) < scrape_limit /\ html_page_count < scrape_max_pages
    /\ \E seen \in AfterUrl(html_seen_ids, html_page_count),
          post_elements \in SeqsUpTo(Posts, ElementsPerPage) :
         LET scan == ScanPage(post_elements, html_posts, seen, 0)
         IN /\ html_posts' = scan.posts
            /\ html_seen_ids' = scan.seen_ids
            /\ IF scan.page_posts = 0
               THEN html_pc' = "returned" /\ UNCHANGED html_page_count
               ELSE html_page_count' = html_page_count + 1
                        /\ UNCHANGED html_pc
    /\ UNCHANGED <<disk, clock, pc, threads, run_vars, combine_vars,
                   fetch_vars, request_vars, normalize_vars, later_vars>>

\* the while condition is false: return posts
ScrapeReturn ==
    /\ html_pc = "loop"
    /\ ~(Len(html_posts) < scrape_limit /\ html_page_count < scrape_max_pages)
    /\ html_pc' = "returned"
    /\ UNCHANGED <<disk, clock, pc, threads, run_vars, combine_vars,
                   fetch_vars, request_vars, normalize_vars, later_vars, html_posts,
                   html_seen_ids, html_page_count>>

NextScrape ==
    \/ ScrapePage
    \/ ScrapeReturn

\* scrape_subreddit has just been called
InitScrape ==
    /\ disk = {} /\ Memory /\ NoRequest /\ NoRecord /\ Elsewhere
    /\ html_posts = <<>> /\ html_seen_ids = {} /\ html_page_count = 0
    /\ html_pc = "loop"

\* one call of RedditHTMLScraper.scrape_subreddit
SpecScrape == InitScrape /\ [][NextScrape]_vars

(* ------------------- collect_threads, sweep by sweep ------------------ *)
\* the four classes with a collect_threads over subreddits and sort methods
Collectors ==
    {"RedditPublicCollector", "RedditCollector", "RedditHealthCollector",
     "RedditHTMLScraper"}

\* str.lower() on the letters of the texts
Lower(ch) ==
    CASE ch = "K" -> "k"
      [] ch = "W" -> "w"
      [] OTHER -> ch

LowerText(text) == [i \in DOMAIN text |-> Lower(text[i])]

\* keyword in text, for strings as sequences of letters
Contains(text, keyword) ==
    \E i \in 1 .. (Len(text) - Len(keyword) + 1) :
        SubSeq(text, i, i + Len(keyword) - 1) = keyword

\* disease_area['keywords']
Keywords == {<<"k", "W">>}

\* titles and bodies of posts: the keyword in the title in another case,
\* the keyword only across title and body, the keyword in the body
ListedTexts ==
    {[title |-> <<"K", "w">>, selftext |-> <<>>],
     [title |-> <<"k">>, selftext |-> <<"w">>],
     [title |-> <<"k">>, selftext |-> <<"k", "W">>]}

\* the posts a listing can yield
ListedPosts ==
    {[id |-> id, title |-> t.title, selftext |-> t.selftext] :
        id \in Ids, t \in ListedTexts}

\* _is_relevant, and the same test inline in RedditHTMLScraper:
\* text = f"{title} {selftext}".lower();
\* any(keyword.lower() in text for keyword in keywords)
IsRelevant(post, keywords) ==
    LET text == LowerText(post.title \o <<" ">> \o post.selftext)
    IN \E keyword \in keywords : Contains(text, LowerText(keyword))

\* what a sweep of one subreddit with one sort method gives: the posts it
\* yields and whether the source fails after them (an exception out of
\* the PRAW listing or of _extract_thread_data of RedditHealthCollector, a
\* failed page inside collect_subreddit_posts or scrape_subreddit)
Listings == [posts : SeqsUpTo(ListedPosts, ListingSize), raised : BOOLEAN]

\* the test a collector makes before it accepts an unseen post:
\* RedditPublicCollector.collect_threads makes none
PassesFilter(c, post) ==
    IF c = "RedditPublicCollector" THEN TRUE ELSE IsRelevant(post, Keywords)

\* the loop over the posts of a sweep, from acc = [threads, seen_ids]
RECURSIVE AcceptListing(_, _, _, _)
AcceptListing(c, sub, listed, acc) ==
    IF listed = <<>> THEN acc
    ELSE IF c = "RedditPublicCollector"
              /\ Len(acc.threads) >= topic_target_count
    THEN acc
    ELSE LET post == Head(listed)
             thread == [id |-> post.id, title |-> post.title,
                        selftext |-> post.selftext, subreddit |-> sub]
             acc1 == [threads |-> Append(acc.threads, thread),
                      seen_ids |-> acc.seen_ids \cup {post.id}]
         IN IF post.id \in acc.seen_ids \/ ~PassesFilter(c, post)
            THEN AcceptListing(c, sub, Tail(listed), acc)
            ELSE IF c = "RedditHTMLScraper"
                      /\ Len(acc1.threads) >= topic_target_count
            THEN acc1
            ELSE AcceptListing(c, sub, Tail(listed), acc1)

\* collect_threads has left its loops
NoSubredditLeft(sub) == Len(Subreddits) + 1

\* the next subreddit of the for loop
NextSubreddit(sub) == sub + 1

\* the next sort method of the subreddit, or the next subreddit after the
\* last one
NextSweep(sub, sort) ==
    IF sort < Len(Sorts)
    THEN [sub |-> sub, sort |-> sort + 1]
    ELSE [sub |-> NextSubreddit(sub), sort |-> 1]

\* what every sweep does to the state, given where the collector goes on
Sweep(listing, next) ==
    LET sub == Subreddits[coll_sub]
        acc == AcceptListing(collector, sub, listing.posts,
                             [threads |-> coll_threads,
                              seen_ids |-> coll_seen_ids])
    IN /\ coll_threads' = acc.threads
       /\ coll_seen_ids' = acc.seen_ids
       /\ coll_sub' = next.sub
       /\ coll_sort' = next.sort
       /\ attempted' = attempted \cup {sub}
       /\ failed' = IF listing.raised THEN failed \cup {sub} ELSE failed
       /\ kept' = IF listing.raised THEN acc.threads ELSE kept
       /\ coll_pc' = "fetch" /\ coll_pages' = <<>> /\ coll_posts' = <<>>
       /\ coll_page_count' = 0
       /\ UNCHANGED <<collector, beside_collect>>

\* RedditCollector.collect_threads of collect_with_praw: one sort method
\* of one subreddit; an exception is caught around the sort method
RedditCollectorSweep ==
    /\ collector = "RedditCollector" /\ coll_sub <= Len(Subreddits)
    /\ \E listing \in Listings :
         /\ InOrderOfAppearance(listing.posts, coll_seen_ids)
         /\ Sweep(listing, NextSweep(coll_sub, coll_sort))

\* RedditCollector.collect_threads: subreddit.display_name raises, the
\* subreddit is skipped
RedditCollectorNoAccess ==
    /\ collector = "RedditCollector" /\ coll_sub <= Len(Subreddits)
    /\ coll_sort = 1
    /\ Sweep([posts |-> <<>>, raised |-> TRUE],
             [sub |-> NextSubreddit(coll_sub), sort |-> 1])

\* RedditHealthCollector.collect_threads: one sort method of one
\* subreddit; an exception is caught around the subreddit
RedditHealthCollectorSweep ==
    /\ collector = "RedditHealthCollector" /\ coll_sub <= Len(Subreddits)
    /\ \E listing \in Listings :
         /\ InOrderOfAppearance(listing.posts, coll_seen_ids)
         /\ Sweep(listing,
               IF listing.raised
               THEN [sub |-> NextSubreddit(coll_sub), sort |-> 1]
               ELSE NextSweep(coll_sub, coll_sort))

\* RedditHTMLScraper.collect_threads: one sort method of one subreddit,
\* and the three breaks once target_count is reached
RedditHTMLScraperSweep ==
    /\ collector = "RedditHTMLScraper" /\ coll_sub <= Len(Subreddits)
    /\ \E listing \in Listings :
         /\ InOrderOfAppearance(listing.posts, coll_seen_ids)
         /\ LET acc == AcceptListing(collector, Subreddits[coll_sub],
                                     listing.posts,
                                     [threads |-> coll_threads,
                                      seen_ids |-> coll_seen_ids])
            IN Sweep(listing,
                     IF Len(acc.threads) >= topic_target_count
                     THEN [sub |-> NoSubredditLeft(coll_sub), sort |-> 1]
                     ELSE NextSweep(coll_sub, coll_sort))

\* limit of a sweep: max_pages full pages (375 = 15 * 25, 250 = 10 * 25)
sweep_limit == SweepPages * ListingSize

\* RedditPublicCollector copies title and selftext and never reads them:
\* the posts of its listings carry the text without a keyword
UnreadPosts == {post \in ListedPosts : ~IsRelevant(post, Keywords)}

\* what make_request returns for a page of a listing
PageResponses ==
    {[failed |-> TRUE, children |-> <<>>, after |-> FALSE]} \cup
    [failed : {FALSE}, children : SeqsUpTo(UnreadPosts, ListingSize),
     after : BOOLEAN]

RECURSIVE PostIds(_)
PostIds(listed) ==
    IF listed = <<>> THEN {} ELSE {Head(listed).id} \cup PostIds(Tail(listed))

\* RedditPublicCollector.collect_subreddit_posts: one iteration of the
\* while loop, one make_request and the handling of its result
RedditPublicCollectorFetchPage ==
    /\ collector = "RedditPublicCollector" /\ coll_sub <= Len(Subreddits)
    /\ coll_pc = "fetch"
    /\ \E page \in PageResponses :
         /\ InOrderOfAppearance(page.children,
                                coll_seen_ids \cup PostIds(coll_posts))
         /\ coll_pages' = Append(coll_pages, page)
         /\ IF page.failed \/ page.children = <<>>
            THEN /\ coll_pc' = "accept"
                 /\ UNCHANGED <<coll_posts, coll_page_count>>
            ELSE /\ coll_posts' =
                      coll_posts \o
                          Take(page.children, sweep_limit - Len(coll_posts))
                 /\ IF ~page.after
                    THEN /\ coll_pc' = "accept"
                         /\ UNCHANGED coll_page_count
                    ELSE /\ coll_page_count' = coll_page_count + 1
                         /\ coll_pc' = IF Len(coll_posts') < sweep_limit
                                          /\ coll_page_count' < SweepPages
                                       THEN "fetch" ELSE "accept"
    /\ UNCHANGED <<collector, coll_threads, coll_seen_ids, coll_sub,
                   coll_sort, attempted, failed, kept, beside_collect>>

\* RedditPublicCollector.collect_threads without prior artifacts: the
\* loop over the posts of a sweep, the guards of the next sort method and
\* the check at the head of the loop over subreddits
RedditPublicCollectorSweep ==
    /\ collector = "RedditPublicCollector" /\ coll_sub <= Len(Subreddits)
    /\ coll_pc = "accept"
    /\ LET listing ==
               [posts |-> coll_posts,
                raised |-> \E i \in DOMAIN coll_pages : coll_pages[i].failed]
           acc == AcceptListing(collector, Subreddits[coll_sub],
                                listing.posts,
                                [threads |-> coll_threads,
                                 seen_ids |-> coll_seen_ids])
       IN Sweep(listing,
                IF Len(acc.threads) >= topic_target_count
                THEN [sub |-> NoSubredditLeft(coll_sub), sort |-> 1]
                ELSE NextSweep(coll_sub, coll_sort))

NextCollect ==
    \/ RedditCollectorSweep
    \/ RedditCollectorNoAccess
    \/ RedditHealthCollectorSweep
    \/ RedditHTMLScraperSweep
    \/ RedditPublicCollectorFetchPage
    \/ RedditPublicCollectorSweep

\* collect_threads of one of the classes has just been called for a topic
InitCollect ==
    /\ disk = {} /\ Memory /\ NoRequest /\ NoScrape /\ NoRecord
    /\ NoMain /\ NoArticles /\ NoTail
    /\ collector \in Collectors
    /\ coll_threads = <<>> /\ coll_seen_ids = {}
    /\ coll_sub = 1 /\ coll_sort = 1
    /\ attempted = {} /\ failed = {} /\ kept = <<>>
    /\ coll_pc = "fetch" /\ coll_pages = <<>> /\ coll_posts = <<>>
    /\ coll_page_count = 0

\* one call of collect_threads of one of the four classes
SpecCollect == InitCollect /\ [][NextCollect]_vars

(* ------------------------ main, topic by topic ------------------------ *)
\* DISEASE_AREAS, in the order of the dictionary
DiseaseAreas == <<"diabetes", "heart_disease">>

\* the scripts whose main loops over DISEASE_AREAS
Programs == {"collect_reddit_public", "collect_with_praw"}

RECURSIVE Sum(_)
Sum(counts) == IF counts = <<>> THEN 0 ELSE Head(counts) + Sum(Tail(counts))

\* sum(r['count'] for r in all_results.values())
total_threads == Sum([i \in DOMAIN all_results |-> all_results[i].count])

\* the sys.exit of collect_reddit_public; main of collect_with_praw
\* returns and the interpreter exits with 0
Success(total) ==
    IF program = "collect_reddit_public"
    THEN (IF total >= min_total_threads THEN 0 ELSE 1)
    ELSE 0

\* the for loop of main goes to the next topic or leaves the loop
NextTopic ==
    /\ disease_idx' = disease_idx + 1
    /\ main_pc' = IF disease_idx < Len(DiseaseAreas) THEN "collect"
                  ELSE "summary"

\* an exception nobody catches: traceback, exit status 1
Uncaught ==
    /\ main_pc' = "exited"
    /\ exit_status' = 1
    /\ UNCHANGED disease_idx

\* main: collector.collect_threads returns the threads of the topic
MainCollect ==
    /\ main_pc = "collect"
    /\ \E n \in 0 .. MaxTopicThreads :
         /\ topic_threads' = n
         /\ topic_counts' = Append(topic_counts, n)
         /\ IF n > 0
            THEN main_pc' = "save" /\ UNCHANGED disease_idx
            ELSE NextTopic
    /\ started' = started \cup {DiseaseAreas[disease_idx]}
    /\ UNCHANGED <<program, all_results, exit_status, beside_main>>

\* main of collect_reddit_public: _save_incremental raises inside
\* collect_threads (open or json.dump fails) after n threads; nothing
\* between it and the interpreter catches the exception
MainCollectRaises ==
    /\ main_pc = "collect"
    /\ program = "collect_reddit_public"
    /\ \E n \in 1 .. MaxTopicThreads :
         /\ topic_threads' = n
         /\ topic_counts' = Append(topic_counts, n)
    /\ started' = started \cup {DiseaseAreas[disease_idx]}
    /\ Uncaught
    /\ UNCHANGED <<program, all_results, beside_main>>

\* main: save_data writes both files and the topic enters all_results
MainSaveData ==
    /\ main_pc = "save"
    /\ all_results' =
           Append(all_results,
                  [disease |-> DiseaseAreas[disease_idx],
                   count |-> topic_threads])
    /\ NextTopic
    /\ UNCHANGED <<program, topic_threads, exit_status, started,
                   topic_counts, beside_main>>

\* main: save_data raises (open, json.dump or to_csv fails)
MainSaveDataRaises ==
    /\ main_pc = "save"
    /\ Uncaught
    /\ UNCHANGED <<program, topic_threads, all_results, started,
                   topic_counts, beside_main>>

\* main after the loop: the summary, the return value and the exit
MainReturn ==
    /\ main_pc = "summary"
    /\ main_pc' = "exited"
    /\ exit_status' = Success(total_threads)
    /\ UNCHANGED <<program, disease_idx, topic_threads, all_results,
                   started, topic_counts, beside_main>>

NextMain ==
    \/ MainCollect
    \/ MainCollectRaises
    \/ MainSaveData
    \/ MainSaveDataRaises
    \/ MainReturn

\* main of one of the scripts enters its loop over DISEASE_AREAS
InitMain ==
    /\ disk = {} /\ Memory /\ NoRequest /\ NoScrape /\ NoRecord /\ NoCollect
    /\ NoArticles /\ NoTail
    /\ program \in Programs
    /\ main_pc = "collect" /\ disease_idx = 1
    /\ topic_threads = 0 /\ all_results = <<>> /\ exit_status = NoStatus
    /\ started = {} /\ topic_counts = <<>>

\* one run of main of a collector script
SpecMain == InitMain /\ [][NextMain]_vars

(* --------------------------- article scrapers ------------------------- *)
\* the classes with a scrape_article
Scrapers ==
    {"MedicalArticleScraper", "DeepScraper", "FocusedScraper", "EasyScraper"}

Urls == {"u1", "u2"}

\* titles of article pages, as sequences of characters
ArticleTitles == {<<"a">>, <<"a", "?">>, <<"b", " ">>}

\* max_length of sanitize_filename
max_length == 100

RECURSIVE Underscored(_)
\* re.sub(r'[-\s]+', '_', text)
Underscored(text) ==
    IF text = <<>> THEN <<>>
    ELSE IF Head(text) \in {" ", "-"}
    THEN IF Tail(text) # <<>> /\ Head(Tail(text)) \in {" ", "-"}
         THEN Underscored(Tail(text))
         ELSE <<"_">> \o Underscored(Tail(text))
    ELSE <<Head(text)>> \o Underscored(Tail(text))

RECURSIVE Stripped(_)
\* text.strip('_')
Stripped(text) ==
    IF text = <<>> THEN <<>>
    ELSE IF Head(text) = "_" THEN Stripped(Tail(text))
    ELSE IF text[Len(text)] = "_"
    THEN Stripped(SubSeq(text, 1, Len(text) - 1))
    ELSE text

\* sanitize_filename: re.sub(r'[^\w\s-]', '', text), the underscores, the
\* truncation and the strip
sanitize_filename(text) ==
    Stripped(Take(Underscored(SelectSeq(text, LAMBDA ch : ch # "?")),
                  max_length))

\* what requests.get and the parsing give for a url: an exception or a
\* status other than 200, a page with less than 500 characters of
\* content, or an article with a title
ArticleResponses ==
    [kind : {"error", "short"}, title : {<<>>}] \cup
    [kind : {"page"}, title : ArticleTitles]

\* the entry of articles_collected for an article
Metadata(url, title) ==
    [url |-> url, title |-> title, filename |-> sanitize_filename(title)]

UrlsOf(articles) == {articles[i].url : i \in DOMAIN articles}

FilenamesOf(articles) == {articles[i].filename : i \in DOMAIN articles}

\* scrape_article without a request
ReturnsAtOnce ==
    UNCHANGED <<articles_collected, metadata_file, article_files,
                requested_urls, saved_urls>>

\* scrape_article from requests.get on: the response, the test of the
\* content, the test of the filename, the file, the metadata
RequestAndSave(url, response) ==
    /\ requested_urls' = requested_urls \cup {url}
    /\ IF response.kind # "page"
          \/ Metadata(url, response.title).filename
                 \in FilenamesOf(articles_collected)
       THEN UNCHANGED <<articles_collected, metadata_file, article_files,
                        saved_urls>>
       ELSE /\ article_files' =
                   article_files \cup {Metadata(url, response.title)}
            /\ articles_collected' =
                   Append(articles_collected, Metadata(url, response.title))
            /\ metadata_file' = articles_collected'
            /\ saved_urls' = saved_urls \cup {url}

\* any(a['url'] == url for a in self.articles_collected)
UrlCollected(url, articles) == url \in UrlsOf(articles)

\* scrape_article of DeepScraper, FocusedScraper and EasyScraper
ScrapeArticle(url, response) ==
    IF UrlCollected(url, articles_collected)
    THEN ReturnsAtOnce
    ELSE RequestAndSave(url, response)

\* MedicalArticleScraper.scrape_article
MedicalArticleScraperScrapeArticle ==
    /\ scraper = "MedicalArticleScraper"
    /\ \E url \in Urls, response \in ArticleResponses :
         RequestAndSave(url, response)
    /\ UNCHANGED <<scraper, recorded_urls, beside_articles>>

\* DeepScraper.scrape_article
DeepScraperScrapeArticle ==
    /\ scraper = "DeepScraper"
    /\ \E url \in Urls, response \in ArticleResponses :
         ScrapeArticle(url, response)
    /\ UNCHANGED <<scraper, recorded_urls, beside_articles>>

\* FocusedScraper.scrape_article
FocusedScraperScrapeArticle ==
    /\ scraper = "FocusedScraper"
    /\ \E url \in Urls, response \in ArticleResponses :
         ScrapeArticle(url, response)
    /\ UNCHANGED <<scraper, recorded_urls, beside_articles>>

\* EasyScraper.scrape_article
EasyScraperScrapeArticle ==
    /\ scraper = "EasyScraper"
    /\ \E url \in Urls, response \in ArticleResponses :
         ScrapeArticle(url, response)
    /\ UNCHANGED <<scraper, recorded_urls, beside_articles>>

\* the default output_dir of __init__, which main of each script uses
OutputDir(class) ==
    IF class \in {"MedicalArticleScraper", "FocusedScraper"}
    THEN "../data/auth_src/medical_articles"
    ELSE "../data/medical_articles"

\* the process has ended and a script whose scraper has the same
\* output_dir is run: __init__ loads articles_metadata.json into
\* articles_collected (lines 21-30 of each class)
ScraperInit ==
    /\ scraper # "none"
    /\ \E class \in Scrapers :
         /\ OutputDir(class) = OutputDir(scraper)
         /\ scraper' = class
    /\ articles_collected' = metadata_file
    /\ recorded_urls' = UrlsOf(metadata_file)
    /\ requested_urls' = {} /\ saved_urls' = {}
    /\ UNCHANGED <<metadata_file, article_files, beside_articles>>

NextArticles ==
    \/ ScraperInit
    \/ MedicalArticleScraperScrapeArticle
    \/ DeepScraperScrapeArticle
    \/ FocusedScraperScrapeArticle
    \/ EasyScraperScrapeArticle

\* what earlier runs of the scrapers left in articles_metadata.json:
\* articles with different filenames
PriorMetadata ==
    {m \in SeqsUpTo({Metadata(url, title) :
                         url \in Urls, title \in ArticleTitles},
                    MaxPriorArticles) :
        \A i, j \in DOMAIN m : m[i].filename = m[j].filename => i = j}

\* __init__ of a scraper has loaded articles_metadata.json
InitArticles ==
    /\ disk = {} /\ Memory /\ NoRequest /\ NoScrape /\ NoRecord /\ NoCollect
    /\ NoMain /\ NoTail
    /\ scraper \in Scrapers
    /\ metadata_file \in PriorMetadata
    /\ articles_collected = metadata_file
    /\ article_files = {metadata_file[i] : i \in DOMAIN metadata_file}
    /\ recorded_urls = UrlsOf(metadata_file)
    /\ requested_urls = {} /\ saved_urls = {}

\* one run of an article scraper
SpecArticles == InitArticles /\ [][NextArticles]_vars

(* ----------------- combine_files.main, both topics ------------------ *)
\* the topics of the two blocks of main (lines 102 and 125), in order
CombineTopics == <<"diabetes", "heart_disease">>

\* the threads of the artifacts of a topic
TopicThreads ==
    <<[id |-> 1, title |-> "t", subreddit |-> "s1", comments |-> <<>>]>>

\* what OUTPUT_DIR can hold for one topic when main starts: nothing, a
\* snapshot with its twin (of save_data, of _save_incremental or of an
\* earlier combine), a snapshot of no thread, one form without the
\* other, or a file that was cut while it was written
TopicDisks ==
    {{}}
        \cup {Twins(kind, 1, ths) :
                  kind \in {"final", "incr_ts", "combined"},
                  ths \in {<<>>, TopicThreads}}
        \cup {{File("final", form, 1, <<>>)} : form \in Forms}
        \cup {{File("final", "json", 1, TopicThreads)},
              {File("final", "csv", 1, CsvRows(TopicThreads))},
              {Truncated(1)}}

\* the value combine_csv_files returns: a single None without any CSV
\* file (line 59), else the pair of the rows and the field names or the
\* pair (None, None) (lines 86-89); rows is <<>> for None
CombineCsvResult(d, order) ==
    IF CsvFiles(d) = {}
    THEN [pair |-> FALSE, rows |-> <<>>]
    ELSE [pair |-> TRUE, rows |-> CombineCsvFiles(order)]

\* the value combine_json_files returns: None without any JSON file
\* (line 25), else all_threads; <<>> stands for None as for the empty
\* list, which 'if diabetes_threads:' does not tell apart
CombineJsonResult(d, order) ==
    IF JsonFiles(d) = {} THEN <<>> ELSE CombineJsonFiles(order)

\* 'diabetes_rows, fieldnames = value' (lines 110, 133) unpacks a pair
\* and raises TypeError on None
Unpacks(value) == value.pair

merge_topic == CombineTopics[merge_idx]

\* combine_json_files of the topic and the write of its result
\* (lines 102-108, 125-131)
MergeJson ==
    /\ merge_pc = "json"
    /\ \E order \in Orders(JsonFiles(output_dir[merge_topic])) :
         LET topic_threads_out ==
                 CombineJsonResult(output_dir[merge_topic], order)
         IN IF topic_threads_out # <<>>
            THEN /\ output_dir' =
                        [output_dir EXCEPT ![merge_topic] =
                            WriteCombined(@, "json", topic_threads_out, 2)]
                 /\ merged' = merged \cup {<<merge_topic, "json">>}
            ELSE UNCHANGED <<output_dir, merged>>
    /\ merge_pc' = "csv"
    /\ UNCHANGED <<merge_idx, beside_merge>>

\* combine_csv_files of the topic, the unpacking of its result and the
\* write of the rows (lines 110-118, 133-141); an exception of the
\* unpacking leaves main
MergeCsv ==
    /\ merge_pc = "csv"
    /\ \E order \in Orders(CsvFiles(output_dir[merge_topic])) :
         LET value == CombineCsvResult(output_dir[merge_topic], order)
         IN IF ~Unpacks(value)
            THEN /\ merge_pc' = "raised"
                 /\ UNCHANGED <<output_dir, merged, merge_idx>>
            ELSE /\ IF value.rows # <<>>
                    THEN /\ output_dir' =
                                [output_dir EXCEPT ![merge_topic] =
                                    WriteCombined(@, "csv", value.rows, 2)]
                         /\ merged' = merged \cup {<<merge_topic, "csv">>}
                    ELSE UNCHANGED <<output_dir, merged>>
                 /\ IF merge_idx < Len(CombineTopics)
                    THEN merge_idx' = merge_idx + 1 /\ merge_pc' = "json"
                    ELSE merge_pc' = "summary" /\ UNCHANGED merge_idx
    /\ UNCHANGED beside_merge

\* the summary and the return of main (lines 143-153)
MergeSummary ==
    /\ merge_pc = "summary"
    /\ merge_pc' = "returned"
    /\ UNCHANGED <<output_dir, merge_idx, merged, beside_merge>>

NextMerge == MergeJson \/ MergeCsv \/ MergeSummary

InitMerge ==
    /\ disk = {} /\ Memory /\ NoRequest /\ NoScrape /\ NoRecord
    /\ NoCollect /\ NoMain /\ NoArticles /\ NoArticleRun /\ NoSave
    /\ NoUpload /\ NoSync
    /\ output_dir \in [{CombineTopics[i] : i \in DOMAIN CombineTopics}
                            -> TopicDisks]
    /\ merge_pc = "json" /\ merge_idx = 1 /\ merged = {}

\* one run of combine_files.main over its two topics
SpecMerge == InitMerge /\ [][NextMerge]_vars

(* ---------------------- runs of the article scrapers ------------------ *)
\* the sources a run goes through (trusted_sources; the scrape_* methods
\* run calls in turn), and the candidate urls a source has
RunSources == 1 .. NumSources

\* articles_per_source of scrape_all: max(5, remaining // len(sources))
ArticlesPerSource(remaining) ==
    IF remaining \div NumSources > min_per_source
    THEN remaining \div NumSources ELSE min_per_source

\* max_articles of the source the run turns to: scrape_all passes
\* articles_per_source, run of DeepScraper and EasyScraper a fixed
\* number, run of FocusedScraper what is missing from the target, half
\* of it to the first source
MaxArticles(class, idx, n, start) ==
    CASE class = "MedicalArticleScraper" ->
             ArticlesPerSource(run_target - start)
      [] class \in {"DeepScraper", "EasyScraper"} -> fixed_max_articles
      [] class = "FocusedScraper" ->
             IF idx < NumSources THEN (run_target - n) \div NumSources
             ELSE run_target - n

\* the run turns to the source idx
StartSource(idx) ==
    /\ run_pc' = "source"
    /\ source_idx' = idx
    /\ max_articles' = MaxArticles(runner, idx, n_articles, start_count)
    /\ articles_found' = 0
    /\ urls_left' = SourceUrls

\* the beginning of scrape_all (lines 259-283) and of run: scrape_all
\* returns when nothing remains to the target, run starts its first
\* source whatever the count
RunStart ==
    /\ run_pc = "start"
    /\ IF runner = "MedicalArticleScraper" /\ run_target - n_articles <= 0
       THEN /\ run_pc' = "returned"
            /\ UNCHANGED <<source_idx, max_articles, articles_found,
                           urls_left>>
       ELSE StartSource(1)
    /\ UNCHANGED <<runner, n_articles, start_count, fetched_at_target,
                   beside_article_run>>

\* one turn of the loop of a source over its urls (scrape_source lines
\* 239-254, scrape_medical_news_today_deep lines 144-150 and the like):
\* while urls are left and the count is below max_articles,
\* scrape_article requests the url and saves the article or not
ScrapeNextUrl ==
    /\ run_pc = "source"
    /\ urls_left > 0 /\ articles_found < max_articles
    /\ urls_left' = urls_left - 1
    /\ fetched_at_target' = (fetched_at_target \/ n_articles >= run_target)
    /\ \E saved \in BOOLEAN :
         IF saved
         THEN /\ n_articles' = n_articles + 1
              /\ articles_found' = articles_found + 1
         ELSE UNCHANGED <<n_articles, articles_found>>
    /\ UNCHANGED <<runner, run_pc, source_idx, max_articles, start_count,
                   beside_article_run>>

\* the loop of the source has ended
SourceDone ==
    /\ run_pc = "source"
    /\ (urls_left = 0 \/ articles_found >= max_articles)

\* what every return of a source leaves alone
AfterSource ==
    UNCHANGED <<runner, n_articles, start_count, fetched_at_target,
                beside_article_run>>

\* the run is over
RunReturns ==
    /\ run_pc' = "returned"
    /\ UNCHANGED <<source_idx, max_articles, articles_found, urls_left>>

\* scrape_all after scrape_source (lines 278-289): the next source
\* unless the count has reached target_count
MedicalArticleScraperScrapeAll ==
    /\ runner = "MedicalArticleScraper" /\ SourceDone
    /\ IF source_idx = NumSources \/ n_articles >= run_target
       THEN RunReturns
       ELSE StartSource(source_idx + 1)
    /\ AfterSource

\* DeepScraper.run after a source (lines 295-312)
DeepScraperRun ==
    /\ runner = "DeepScraper" /\ SourceDone
    /\ IF source_idx = NumSources \/ n_articles >= run_target
       THEN RunReturns
       ELSE StartSource(source_idx + 1)
    /\ AfterSource

\* EasyScraper.run after a source (lines 363-385)
EasyScraperRun ==
    /\ runner = "EasyScraper" /\ SourceDone
    /\ IF source_idx = NumSources \/ n_articles >= run_target
       THEN RunReturns
       ELSE StartSource(source_idx + 1)
    /\ AfterSource

\* FocusedScraper.run after a source (lines 269-281)
FocusedScraperRun ==
    /\ runner = "FocusedScraper" /\ SourceDone
    /\ IF source_idx = NumSources
       THEN RunReturns
       ELSE StartSource(source_idx + 1)
    /\ AfterSource

NextArticleRun ==
    \/ RunStart
    \/ ScrapeNextUrl
    \/ MedicalArticleScraperScrapeAll
    \/ DeepScraperRun
    \/ EasyScraperRun
    \/ FocusedScraperRun

\* a scraper has loaded a metadata file of at most run_target articles
\* and its run begins
InitArticleRun ==
    /\ disk = {} /\ Memory /\ NoRequest /\ NoScrape /\ NoRecord
    /\ NoCollect /\ NoMain /\ NoArticles /\ NoMerge /\ NoSave /\ NoUpload
    /\ NoSync
    /\ runner \in Scrapers
    /\ run_pc = "start" /\ source_idx = 1
    /\ max_articles = 0 /\ articles_found = 0 /\ urls_left = 0
    /\ n_articles \in 0 .. run_target
    /\ start_count = n_articles
    /\ fetched_at_target = FALSE

\* one run of an article scraper towards its target
SpecArticleRun == InitArticleRun /\ [][NextArticleRun]_vars

(* ------------------- the two forms of one flush ---------------------- *)
\* the functions that write a JSON file and its CSV summary
Savers == {"_save_incremental", "save_data", "_save_file"}

\* a comment as extract_comment returns it, reduced to its replies
Comment(replies) == [replies |-> replies]

\* the comments lists a thread can carry: none, one comment, one
\* comment with a reply, two comments of which one has two replies
CommentTrees ==
    {<<>>,
     <<Comment(<<>>)>>,
     <<Comment(<<Comment(<<>>)>>)>>,
     <<Comment(<<>>), Comment(<<Comment(<<>>), Comment(<<>>)>>)>>}

\* count_comments of _save_incremental (lines 582-587) and
\* count_all_comments of fetch_comments_for_file (lines 212-217): the
\* comments of the list and, recursively, their replies
RECURSIVE count_comments(_)
count_comments(comment_list) ==
    IF comment_list = <<>> THEN 0
    ELSE 1 + count_comments(Head(comment_list).replies)
           + count_comments(Tail(comment_list))

\* the threads the functions are given: a thread as _process_post made
\* it, without comments and without the key 'num_collected_comments'
\* (<<>> for the missing key), and a thread as fetch_comments_for_file
\* left it (lines 209-225), with the comments found for it and their
\* count under the key
ThreadsToSave ==
    {[id |-> id, comments |-> <<>>, num_collected_comments |-> <<>>] :
        id \in 1 .. MaxSavedThreads}
      \cup {[id |-> id, comments |-> tree,
             num_collected_comments |-> <<count_comments(tree)>>] :
                id \in 1 .. MaxSavedThreads, tree \in CommentTrees}

\* the csv_row of a thread, reduced to its id and its count
CsvRow(thread, count) == [id |-> thread.id, num_collected_comments |-> count]

\* csv_data of _save_incremental (lines 579-602)
SaveIncrementalRows(ths) ==
    [i \in DOMAIN ths |-> CsvRow(ths[i], count_comments(ths[i].comments))]

\* csv_data of save_data (lines 628-643)
SaveDataRows(ths) ==
    [i \in DOMAIN ths |-> CsvRow(ths[i], Len(ths[i].comments))]

\* csv_data of CommentFetcher._save_file (lines 254-271)
SaveFileRows(ths) ==
    [i \in DOMAIN ths |-> CsvRow(ths[i], Len(ths[i].comments))]

\* what a call leaves alone
Saved ==
    /\ save_pc = "call" /\ save_pc' = "saved"
    /\ json_out' = save_threads
    /\ UNCHANGED <<saver, save_threads, beside_save>>

\* RedditPublicCollector._save_incremental(threads, disease_name)
SaveIncrementalCall ==
    /\ saver = "_save_incremental"
    /\ csv_out' = SaveIncrementalRows(save_threads)
    /\ Saved

\* RedditPublicCollector.save_data(threads, disease_name)
SaveDataCall ==
    /\ saver = "save_data"
    /\ csv_out' = SaveDataRows(save_threads)
    /\ Saved

\* CommentFetcher._save_file(threads, original_file), the CSV file of
\* the same name existing
SaveFileCall ==
    /\ saver = "_save_file"
    /\ csv_out' = SaveFileRows(save_threads)
    /\ Saved

NextSave == SaveIncrementalCall \/ SaveDataCall \/ SaveFileCall

\* a function is about to write threads with different ids
InitSave ==
    /\ disk = {} /\ Memory /\ NoRequest /\ NoScrape /\ NoRecord
    /\ NoCollect /\ NoMain /\ NoArticles /\ NoMerge /\ NoArticleRun
    /\ NoUpload /\ NoSync
    /\ saver \in Savers
    /\ save_threads \in SeqsUpTo(ThreadsToSave, MaxSavedThreads)
    /\ \A i \in DOMAIN save_threads : save_threads[i].id = i
    /\ save_pc = "call" /\ json_out = <<>> /\ csv_out = <<>>

\* one call of a function that writes the two forms
SpecSave == InitSave /\ [][NextSave]_vars

(* --------------------------- prepare_upload --------------------------- *)
\* FORUM_FILES (lines 25-28)
FORUM_FILES ==
    <<"diabetes_threads_combined.json", "heart_disease_threads_combined.json">>

\* the characters [a-z0-9] of the texts
SlugChars == {"k", "w"}

RECURSIVE Hyphenated(_)
\* re.sub(r"[^a-z0-9]+", "-", text)
Hyphenated(text) ==
    IF text = <<>> THEN <<>>
    ELSE IF Head(text) \notin SlugChars
    THEN IF Tail(text) # <<>> /\ Head(Tail(text)) \notin SlugChars
         THEN Hyphenated(Tail(text))
         ELSE <<"-">> \o Hyphenated(Tail(text))
    ELSE <<Head(text)>> \o Hyphenated(Tail(text))

RECURSIVE StrippedOfHyphens(_)
\* text.strip("-")
StrippedOfHyphens(text) ==
    IF text = <<>> THEN <<>>
    ELSE IF Head(text) = "-" THEN StrippedOfHyphens(Tail(text))
    ELSE IF text[Len(text)] = "-"
    THEN StrippedOfHyphens(SubSeq(text, 1, Len(text) - 1))
    ELSE text

\* slugify (lines 63-66)
slugify(text) ==
    LET slug == StrippedOfHyphens(Hyphenated(LowerText(text)))
    IN IF slug = <<>> THEN <<"unknown">> ELSE slug

\* the threads of the combined artifacts: with an id or without, of a
\* subreddit in one of two spellings
ForumThreads ==
    [id : {NoId, 1}, subreddit : {<<"k">>, <<"K", "_">>}]

\* what combine_json_files leaves in one artifact: no id twice
CombinedForumData ==
    {data \in SeqsUpTo(ForumThreads, MaxForumThreads) :
        \A i, j \in DOMAIN data :
            data[i].id # NoId /\ data[i].id = data[j].id => i = j}

\* a combined artifact under FORUM_SRC, or none
ForumFiles ==
    [exists : {FALSE}, data : {<<>>}]
        \cup [exists : {TRUE}, data : CombinedForumData]

\* articles_metadata.json under AUTH_SRC, or none: the entries have
\* different filenames, and present says that the article file exists
\* and has text left after cleaning
AuthMetadata ==
    [exists : {FALSE}, data : {<<>>}]
        \cup [exists : {TRUE},
              data : {<<>>} \cup
                     {<<[source |-> <<"W">>, filename |-> "a",
                         present |-> b]>> : b \in BOOLEAN}]

\* the entries process_authoritative_articles writes (lines 153-167)
ArticlesWritten(entries) == SelectSeq(entries, LAMBDA e : e.present)

\* rel_key of an article (line 173)
AuthKey(entry) ==
    [type |-> "authoritative", dir |-> slugify(entry.source),
     name |-> <<entry.filename>>]

\* rel_key of a thread (lines 235-243): forums/<slug>/<thread_id>.txt,
\* where thread_id is thread.get("id") or f"thread-{written}"
ForumKey(thread, count) ==
    [type |-> "forums", dir |-> slugify(thread.subreddit),
     name |-> IF thread.id # NoId THEN <<"id", thread.id>>
              ELSE <<"thread", count>>]

\* an entry a run of another day left in manifest.json
LeftOver == [type |-> "forums", dir |-> <<"w">>, name |-> <<"id", 1>>]

\* run up to process_forum_threads (lines 273-278): reset_manifest
\* clears the entries and removes manifest.json, and
\* process_authoritative_articles writes the articles or raises
\* FileNotFoundError without the metadata file
UploadStart ==
    /\ upload_pc = "start"
    /\ manifest_file' = <<>>
    /\ IF ~auth_metadata.exists
       THEN /\ upload_pc' = "raised"
            /\ manifest_entries' = <<>> /\ outputs' = {}
       ELSE /\ upload_pc' = "forum"
            /\ LET articles == ArticlesWritten(auth_metadata.data)
               IN /\ manifest_entries' =
                         [i \in DOMAIN articles |-> AuthKey(articles[i])]
                  /\ outputs' =
                         {AuthKey(articles[i]) : i \in DOMAIN articles}
    /\ UNCHANGED <<auth_metadata, forum_src, forum_idx, thread_idx, written,
                   beside_upload>>

\* one turn of the loop of process_forum_file (lines 234-255)
ProcessForumThread ==
    /\ upload_pc = "forum"
    /\ forum_src[forum_idx].exists
    /\ thread_idx <= Len(forum_src[forum_idx].data)
    /\ LET rel_key == ForumKey(forum_src[forum_idx].data[thread_idx], written)
       IN /\ outputs' = outputs \cup {rel_key}
          /\ manifest_entries' = Append(manifest_entries, rel_key)
    /\ written' = written + 1
    /\ thread_idx' = thread_idx + 1
    /\ UNCHANGED <<auth_metadata, forum_src, manifest_file, upload_pc,
                   forum_idx, beside_upload>>

\* process_forum_threads between two files (lines 261-267): a missing
\* file is passed over
NextForumFile ==
    /\ upload_pc = "forum"
    /\ \/ ~forum_src[forum_idx].exists
       \/ thread_idx > Len(forum_src[forum_idx].data)
    /\ IF forum_idx < Len(FORUM_FILES)
       THEN forum_idx' = forum_idx + 1 /\ UNCHANGED upload_pc
       ELSE upload_pc' = "manifest" /\ UNCHANGED forum_idx
    /\ thread_idx' = 1 /\ written' = 0
    /\ UNCHANGED <<auth_metadata, forum_src, manifest_file,
                   manifest_entries, outputs, beside_upload>>

\* write_manifest and the end of run (lines 282-283)
WriteManifest ==
    /\ upload_pc = "manifest"
    /\ manifest_file' = manifest_entries
    /\ upload_pc' = "done"
    /\ UNCHANGED <<auth_metadata, forum_src, manifest_entries, outputs,
                   forum_idx, thread_idx, written, beside_upload>>

NextUpload ==
    UploadStart \/ ProcessForumThread \/ NextForumFile \/ WriteManifest

\* prepare_upload run is started, with or without a manifest.json of an
\* earlier run
InitUpload ==
    /\ disk = {} /\ Memory /\ NoRequest /\ NoScrape /\ NoRecord
    /\ NoCollect /\ NoMain /\ NoArticles /\ NoMerge /\ NoArticleRun
    /\ NoSave /\ NoSync
    /\ auth_metadata \in AuthMetadata
    /\ forum_src \in [DOMAIN FORUM_FILES -> ForumFiles]
    /\ manifest_file \in {<<>>, <<LeftOver>>}
    /\ manifest_entries = <<>> /\ outputs = {}
    /\ upload_pc = "start" /\ forum_idx = 1 /\ thread_idx = 1
    /\ written = 0

\* one run of prepare_upload
SpecUpload == InitUpload /\ [][NextUpload]_vars

(* ------------------------------- sync_kb ------------------------------ *)
\* the statuses of an ingestion job that get_ingestion_job reports, and
\* "UNKNOWN", which job.get("status", "UNKNOWN") gives for a response
\* without a status
JobStatuses ==
    {"STARTING", "IN_PROGRESS", "COMPLETE", "FAILED", "STOPPING", "STOPPED",
     "UNKNOWN"}

\* wait_for_job_completion: terminal_states without STOPPED
terminal_states_unstopped == {"FAILED", "COMPLETE"}

\* wait_for_job_completion: terminal_states (line 76)
terminal_states == {"FAILED", "COMPLETE", "STOPPED"}

\* the ingestionJobId of a start response: start_ingestion_job of the
\* service answers with the job and its id, or raises
JobIds == {<<"j">>}

\* raise SystemExit(...): the exit status of the process
SystemExit(code) ==
    /\ sync_pc' = "exited"
    /\ sync_exit' = <<code>>

\* main up to the wait (lines 92-107), and its end without a wait:
\* validate_args exits with a message, which is status 1, a
\* ClientError or BotoCoreError of the start exits with 1, and a run
\* that does not wait ends with 0
SyncMain ==
    /\ sync_pc = "main"
    /\ IF ~sync_args.configured
       THEN /\ SystemExit(1)
            /\ UNCHANGED <<job_id, started_status, aws_error>>
       ELSE \/ /\ aws_error' = TRUE
               /\ SystemExit(1)
               /\ UNCHANGED <<job_id, started_status>>
            \/ /\ job_id' \in JobIds
               /\ started_status' \in JobStatuses
               /\ IF sync_args.wait /\ job_id' # <<>>
                  THEN sync_pc' = "poll" /\ UNCHANGED sync_exit
                  ELSE SystemExit(0)
               /\ UNCHANGED aws_error
    /\ UNCHANGED <<sync_args, status, observed, beside_sync>>

\* one turn of the loop of wait_for_job_completion (lines 79-87) and,
\* when the loop ends, the rest of main (lines 116-130)
PollJob ==
    /\ sync_pc = "poll"
    /\ status \notin terminal_states
    /\ \/ /\ aws_error' = TRUE
          /\ SystemExit(1)
          /\ UNCHANGED <<status, observed>>
       \/ \E answer \in JobStatuses :
             /\ answer \in terminal_states \/ Len(observed) < MaxPolls
             /\ status' = answer
             /\ observed' = Append(observed, answer)
             /\ IF answer \in terminal_states
                THEN SystemExit(IF answer # "COMPLETE" THEN 1 ELSE 0)
                ELSE UNCHANGED <<sync_pc, sync_exit>>
             /\ UNCHANGED aws_error
    /\ UNCHANGED <<sync_args, job_id, started_status, beside_sync>>

NextSync == SyncMain \/ PollJob

\* sync_kb is started with or without --wait, with or without the ids
\* of the knowledge base and the data source
InitSync ==
    /\ disk = {} /\ Memory /\ NoRequest /\ NoScrape /\ NoRecord
    /\ NoCollect /\ NoMain /\ NoArticles /\ NoMerge /\ NoArticleRun
    /\ NoSave /\ NoUpload
    /\ sync_args \in [wait : BOOLEAN, configured : BOOLEAN]
    /\ sync_pc = "main" /\ job_id = <<>>
    /\ started_status = "UNKNOWN" /\ status = "UNKNOWN" /\ observed = <<>>
    /\ aws_error = FALSE /\ sync_exit = <<>>

\* one process of sync_kb
SpecSync == InitSync /\ [][NextSync]_vars

(* ------------------------------ properties ---------------------------- *)
\* collect_threads is running or has returned to main
Running == {"loop", "fetch", "process", "returned"}

Occurrences(ths, id) == Cardinality({i \in DOMAIN ths : ths[i].id = id})

\* the for loop has just visited a post with a usable id that the test
\* against seen_ids rejected
Rejected ==
    /\ visited # <<>>
    /\ visited[1].post.id # NoId
    /\ ~visited[1].fresh

\* the snapshots _save_incremental has written in this run
FlushedByRun(d) ==
    {f \in d : f.kind = "incr_ts" /\ f.form = "json" /\ f.ts >= FirstClock}

\* the structured artifacts _load_existing_data chooses from
Eligible(d) ==
    {f \in d : f.form = "json" /\ f.kind \in {"final", "combined", "incr"}}

JsonInputs == {f \in combined_inputs : f.form = "json"}

CsvInputs == {f \in combined_inputs : f.form = "csv"}

\* C1: at-most-once acceptance. Whatever the sweeps of collect_threads
\* return, and however often they return the same id, no two items of
\* threads have the same id.
C1_AtMostOnce ==
    pc \in Running => \A id \in Ids : Occurrences(threads, id) <= 1

\* an id accepted earlier in this run comes back in the 'new' sweep, is
\* not appended, and is in threads once
C1_Witness ==
    /\ pc = "process" /\ Rejected
    /\ Sorts[sort_idx] = "new"
    /\ visited[1].post.id \notin IdSet(prior)
    /\ Occurrences(threads, visited[1].post.id) = 1

\* C2: ledger/collection agreement. After the seeding and after every
\* step of the for loop, seen_ids is exactly the set of the ids of the
\* items of threads (an id enters the one with its item entering the
\* other); right after the seeding it is exactly the ids of the prior
\* items.
C2_LedgerAgrees ==
    pc \in Running =>
        /\ seen_ids = IdSet(threads)
        /\ Len(threads) = initial_count => seen_ids = IdSet(prior)

\* after an accept, an id of the prior artifact is offered and rejected
C2_Witness ==
    /\ pc = "process" /\ Rejected
    /\ visited[1].post.id \in IdSet(prior)
    /\ Len(threads) > initial_count
    /\ seen_ids = IdSet(threads)

\* C3: resumability from incremental flushes. When a run was interrupted
\* after _save_incremental had written a snapshot and before save_data,
\* the next _load_existing_data returns every item of that snapshot, in
\* its threads and in its ledger.
C3_ResumesFromFlush ==
    pc = "killed" =>
        \A f \in FlushedByRun(disk) :
            /\ IdSet(f.data) \subseteq LoadExistingData(disk).seen_ids
            /\ IdSet(f.data) \subseteq IdSet(LoadExistingData(disk).threads)

\* C4 (as claimed): the seed is the union of the prior artifacts. Right
\* after the seeding the ledger holds the id of every item of every
\* artifact of the topic, here of every artifact the load chooses from.
C4_SeedIsUnion ==
    (pc \in Running /\ Len(threads) = initial_count) =>
        \A f \in Eligible(disk) : IdSet(f.data) \subseteq seen_ids

\* C4 (as amended): right after the seeding the ledger holds exactly the
\* ids of one artifact, the most recently modified of those the load
\* chooses from, and nothing when there is none or it cannot be parsed.
C4_SeedIsLatestArtifact ==
    (pc \in Running /\ Len(threads) = initial_count) =>
        IF Eligible(disk) = {} THEN seen_ids = {}
        ELSE \E f \in Eligible(disk) :
                /\ \A g \in Eligible(disk) : g.ts <= f.ts
                /\ seen_ids = IF f.ok THEN IdSet(f.data) ELSE {}

\* two artifacts to choose from, and an id of the older one that the
\* seeded ledger does not hold
C4_Witness ==
    /\ pc \in Running /\ Len(threads) = initial_count
    /\ Cardinality(Eligible(disk)) = 2
    /\ seen_ids # {}
    /\ \E f \in Eligible(disk) : ~(IdSet(f.data) \subseteq seen_ids)

\* C5 (as claimed): resume scenario. A run that starts from prior items
\* of one subreddit returns them with all the new items of the source,
\* whichever subreddit they come from, that of the prior items included:
\* when it returns short of its target it has asked every configured
\* subreddit.
C5_ResumeAsksEverySource ==
    (/\ pc = "returned"
     /\ Cardinality(SeedSubreddits(prior)) = 1
     /\ Len(threads) < target_count) => requested = SubredditSet

\* C5 (as amended): the returned collection is the prior items followed
\* by at most additional_count new ones; no request is made to a
\* subreddit a prior item came from; a run that returns short of its
\* target has asked every other configured subreddit and holds every
\* usable id their sweeps returned.
C5_ResumeSkipsScraped ==
    pc = "returned" =>
        /\ Prefix(prior, threads)
        /\ Len(threads) <= Len(prior) + additional_count
        /\ requested \cap SeedSubreddits(prior) = {}
        /\ Len(threads) < target_count =>
              /\ requested = SubredditSet \ SeedSubreddits(prior)
              /\ supplied = {}

\* a resumed run returns with new items, having left a subreddit out
C5_Witness ==
    /\ pc = "returned"
    /\ prior # <<>> /\ Len(threads) > Len(prior)
    /\ requested # {} /\ requested # SubredditSet

\* C31: already-scraped subreddits are skipped on resume. collect_threads
\* never requests a page of a subreddit that an item of the loaded prior
\* artifact names, and when the prior items name every configured
\* subreddit it returns them unchanged, without a request and without a
\* flush.
C31_ScrapedNeverRequested ==
    pc \in Running =>
        /\ \A i \in DOMAIN prior : prior[i].subreddit \notin requested
        /\ pc = "fetch" =>
              \A i \in DOMAIN prior : prior[i].subreddit # subreddit_name
        /\ (\A sub \in SubredditSet :
                \E i \in DOMAIN prior : prior[i].subreddit = sub)
              => /\ pc = "returned"
                 /\ threads = prior
                 /\ requested = {} /\ supplied = {} /\ flushed = <<>>
                 /\ FlushedByRun(disk) = {}

\* a run that loaded an item of every configured subreddit has returned
C31_Witness ==
    /\ pc = "returned"
    /\ Len(prior) = Len(Subreddits)
    /\ \A sub \in SubredditSet :
          \E i \in DOMAIN prior : prior[i].subreddit = sub
    /\ threads = prior

\* C32: combine_files.main completes for both topics whatever artifacts
\* exist. For every combination of present and absent JSON and CSV
\* artifacts of the two topics, main does not raise, and it does not end
\* before the block of heart_disease because of diabetes.
C32_MergeCompletes ==
    /\ merge_pc # "raised"
    /\ merge_pc \in {"raised", "returned"} => merge_idx = Len(CombineTopics)

\* the first of the listed files, among those that can be read, that
\* holds the id
FirstHolder(order, id) ==
    order[Min({i \in DOMAIN order :
                  order[i].ok /\ id \in IdSet(order[i].data)})]

\* the first record of the list that has the id
RecordOf(ths, id) == ths[Min({i \in DOMAIN ths : ths[i].id = id})]

\* C33: first occurrence wins in the merge. In whatever order the
\* artifacts are listed, each item combine_json_files returns is the
\* record of its id in the first listed artifact that holds the id,
\* never one of a later artifact; the combined artifact main wrote is
\* the result for one of the orders.
C33_FirstOccurrenceWins ==
    combines > 0 =>
        /\ \E o \in Orders(JsonInputs) : all_threads = CombineJsonFiles(o)
        /\ \A o \in Orders(JsonInputs) :
              LET out == CombineJsonFiles(o)
              IN \A i \in DOMAIN out :
                    out[i] = RecordOf(FirstHolder(o, out[i].id).data, out[i].id)

\* two artifacts hold the same id, one with comments and one without,
\* and the combined item has the comments in one order of the artifacts
\* and lacks them in the other
C33_Witness ==
    /\ combines > 0
    /\ \E o1, o2 \in Orders(JsonInputs) :
          /\ IdSet(CombineJsonFiles(o1)) = IdSet(CombineJsonFiles(o2))
          /\ \E i \in DOMAIN CombineJsonFiles(o1),
                j \in DOMAIN CombineJsonFiles(o2) :
                /\ CombineJsonFiles(o1)[i].id = CombineJsonFiles(o2)[j].id
                /\ CombineJsonFiles(o1)[i].comments = <<>>
                /\ CombineJsonFiles(o2)[j].comments # <<>>
                /\ all_threads = CombineJsonFiles(o1)

\* C34: article ledger invariant. While a DeepScraper, an EasyScraper or
\* a FocusedScraper runs, articles_collected has no two entries with the
\* same url and no two with the same filename, and once scrape_article
\* has saved an article in the run the metadata file holds exactly
\* articles_collected.
C34_LedgerUnique ==
    scraper \in {"DeepScraper", "EasyScraper", "FocusedScraper"} =>
        /\ \A i, j \in DOMAIN articles_collected :
              \/ i = j
              \/ /\ articles_collected[i].url # articles_collected[j].url
                 /\ articles_collected[i].filename
                        # articles_collected[j].filename
        /\ saved_urls # {} => metadata_file = articles_collected

\* C35: the article target is never overshot. When scrape_all of
\* MedicalArticleScraper or run of DeepScraper or EasyScraper starts with
\* fewer than target articles, the number of collected articles never
\* exceeds target, and no article is requested once it has reached
\* target.
C35_TargetNotOvershot ==
    (/\ runner \in {"MedicalArticleScraper", "DeepScraper", "EasyScraper"}
     /\ start_count < run_target)
        => n_articles <= run_target /\ ~fetched_at_target

\* C36: the in-memory collection is append-only. From one step of
\* collect_threads to the next, threads is a prefix of what it becomes,
\* the loaded items staying at its head; and of two snapshots flushed by
\* the run the earlier is a prefix of the later, and every one of them a
\* prefix of threads.
C36_AppendOnly ==
    [][/\ (pc \in Running /\ pc' \in Running) => Prefix(threads, threads')
       /\ pc' \in Running =>
             /\ Prefix(prior', threads')
             /\ \A f \in FlushedByRun(disk') : Prefix(f.data, threads')
             /\ \A f, g \in FlushedByRun(disk') :
                    f.ts <= g.ts => Prefix(f.data, g.data)]_vars

\* a resumed run has flushed two snapshots, the later longer than the
\* earlier
C36_Witness ==
    /\ pc \in Running
    /\ prior # <<>>
    /\ \E f, g \in FlushedByRun(disk) :
          f.ts < g.ts /\ Len(prior) < Len(f.data) /\ Len(f.data) < Len(g.data)

\* C37: the reply count agrees between the two forms. For every thread
\* that _save_incremental, save_data or _save_file wrote, the
\* num_collected_comments of its CSV row is the number of comments,
\* nested replies included, that the JSON file of the same call holds
\* for it, and is the num_collected_comments of the thread in the JSON
\* file when the thread has one.
C37_CountsAgree ==
    save_pc = "saved" =>
        /\ Len(csv_out) = Len(json_out)
        /\ \A i \in DOMAIN json_out :
              /\ csv_out[i].id = json_out[i].id
              /\ csv_out[i].num_collected_comments
                     = count_comments(json_out[i].comments)
              /\ json_out[i].num_collected_comments # <<>> =>
                     csv_out[i].num_collected_comments
                         = json_out[i].num_collected_comments[1]

\* C38 (as claimed): the reply-fetch pass is idempotent in its requests.
\* Once fetch_comments_for_file has returned for a file, a later call on
\* the same file requests comments for no thread the earlier call
\* fetched for, those for which it found no comments included.
C38_NeverFetchedAgain == refetched = {}

\* C38 (as amended): a later call on the same file requests comments for
\* no thread for which the earlier call found comments; the threads it
\* fetches for again are those the earlier call found no comments for.
C38_FoundNeverFetchedAgain == \A c \in refetched : ~c.found

\* a second call on a file fetches again for a thread the first call
\* found no comments for, the first call having found comments for
\* another thread of the file
C38_Witness ==
    /\ refetched # {}
    /\ \E c \in completed :
          /\ c.found
          /\ \E r \in refetched : r.name = c.name /\ r.id # c.id

\* C39: manifest keys are unique. After the run of prepare_upload the
\* manifest has exactly one entry for each file the run wrote under
\* to_upload/, no two entries have the same key, whatever ids the
\* threads of the two combined artifacts have or lack, and no entry of
\* an earlier manifest is left.
C39_ManifestKeysUnique ==
    upload_pc = "done" =>
        /\ Len(manifest_file) = Cardinality(outputs)
        /\ {manifest_file[i] : i \in DOMAIN manifest_file} = outputs
        /\ \A i, j \in DOMAIN manifest_file :
              manifest_file[i] = manifest_file[j] => i = j

C7_MergeOrderIndependent ==
    combines > 0 =>
        /\ \A o \in Orders(JsonInputs) :
              /\ IdSet(CombineJsonFiles(o)) = IdSet(all_threads)
              /\ NoDup(CombineJsonFiles(o))
        /\ \A o \in Orders(CsvInputs) :
              /\ IdSet(CombineCsvFiles(o)) = IdSet(all_rows)
              /\ NoDup(CombineCsvFiles(o))

\* two artifacts that share an id and each hold an id of their own are
\* combined into three items
C7_Witness ==
    /\ combines > 0
    /\ Len(all_threads) = Cardinality(MergeItems)
    /\ \E f, g \in JsonInputs :
          /\ IdSet(f.data) \cap IdSet(g.data) # {}
          /\ IdSet(f.data) \ IdSet(g.data) # {}
          /\ IdSet(g.data) \ IdSet(f.data) # {}

\* C8 (as claimed): merge completeness. Every id of every readable
\* artifact of the topic that is not marked combined, incremental
\* snapshots included, is in the output of combine_json_files.
C8_MergeTakesAllButCombined ==
    combines > 0 =>
        \A f \in disk :
            (f.form = "json" /\ ~HasCombined(f) /\ f.ok)
                => IdSet(f.data) \subseteq IdSet(all_threads)

\* C8 (as amended): the artifacts read are the timestamped final
\* snapshots, those marked neither combined nor incremental; every id
\* of a readable one is in the output, and the output holds no other id.
C8_MergeTakesFinalSnapshots ==
    combines > 0 =>
        /\ JsonInputs = {f \in disk : f.form = "json" /\ f.kind = "final"}
        /\ \A f \in JsonInputs : f.ok => IdSet(f.data) \subseteq IdSet(all_threads)
        /\ IdSet(all_threads) \subseteq UNION {IdSet(f.data) : f \in JsonInputs}

\* a final snapshot was combined, and an incremental snapshot holds an
\* id the output lacks
C8_Witness ==
    /\ combines > 0 /\ all_threads # <<>>
    /\ \E f \in disk : /\ f.form = "json" /\ HasIncremental(f)
                       /\ ~(IdSet(f.data) \subseteq IdSet(all_threads))

\* C9: the merge is idempotent under re-run. No artifact marked
\* combined is read by a combine run, and a second run over the same
\* artifacts gives the same set of ids as the first.
C9_MergeIdempotent ==
    /\ combines > 0 => \A f \in combined_inputs : ~HasCombined(f)
    /\ combines > 1 =>
          /\ IdSet(all_threads) = IdSet(previous[1])
          /\ IdSet(all_rows) = IdSet(previous[2])

\* a second run with the combined artifact of the first on disk
C9_Witness ==
    /\ combines > 1
    /\ previous[1] # <<>> /\ all_threads # <<>>
    /\ \E f \in disk : HasCombined(f) /\ f.form = "json"
    /\ Cardinality(JsonInputs) > 1

TwinsOf(f, d) == {g \in d : g.form = "csv" /\ Name(g) = Name(f)}

\* the ids of a list of items or rows, in order
IdsInOrder(data) == [i \in DOMAIN data |-> data[i].id]

\* C11: after every successful flush of _save_incremental, save_data and
\* _save_file, the tabular artifact written with a structured artifact has
\* exactly one row per item of it, with the same ids in the same order
C11_TwinsAgree ==
    pc # "cut" =>
        \A f \in disk :
            f.form = "json" /\ f.ok =>
                /\ TwinsOf(f, disk) # {}
                /\ \A g \in TwinsOf(f, disk) :
                       g.ok /\ IdsInOrder(g.data) = IdsInOrder(f.data)

\* the comment fetcher has rewritten a snapshot of two threads, one with
\* comments and one without, and its table counts them
C11_Witness ==
    /\ pc = "fetched"
    /\ \E f \in disk, g \in disk :
         /\ f.form = "json" /\ f.kind = "final" /\ g \in TwinsOf(f, disk)
         /\ Len(f.data) = 2
         /\ f.data[1].comments = <<>> /\ f.data[2].comments # <<>>
         /\ g.data[1].num_collected_comments = 0
         /\ g.data[2].num_collected_comments = 1
    /\ \E f \in disk : f.kind = "incr_ts"

\* C12: when the process is interrupted during a flush of _save_file, the
\* snapshot written by the previous successful flush is still present and
\* loadable
C12_PreviousFlushSurvives ==
    pc = "cut" =>
        \E f \in disk : Name(f) = json_file /\ f.form = "json" /\ f.ok

\* the requests of the log, in order
Requests == SelectSeq(log, LAMBDA e : e.type = "request")

\* the sleeps of the log taken for the reason why, in order
SleepsFor(why) ==
    LET taken == SelectSeq(log, LAMBDA e : e.type = "sleep" /\ e.outcome = why)
    IN [i \in DOMAIN taken |-> taken[i].secs]

\* every request of the call so far has met an outcome of the set
AllMet(outcomes) ==
    Requests # <<>> /\ \A i \in DOMAIN Requests : Requests[i].outcome \in outcomes

\* C13: for every sequence of per-attempt outcomes the request loop sends
\* at most max_retries requests and then has returned, and what it returns
\* is the parsed response of a successful last request or None
C13_BoundedAndTotal ==
    /\ Len(Requests) <= max_retries
    /\ result \in {"none", "data", "None"}
    /\ Len(Requests) = max_retries => result # "none"
    /\ result = "data" <=>
           Requests # <<>> /\ Requests[Len(Requests)].outcome = "ok"

\* CommentFetcher.make_request has used its three attempts on an
\* exception, an HTTP error and a rate limit, and returned None
C13_Witness ==
    /\ fetcher = "comments" /\ result = "None"
    /\ [i \in DOMAIN Requests |-> Requests[i].outcome] = <<"error", "http", "429">>

\* C14: a URL that is forbidden at every attempt causes exactly two
\* requests with one sleep between them, then failure, in each class
C14_ForbiddenRetriedOnce ==
    AllMet({"403"}) /\ result # "none" =>
        /\ result = "None"
        /\ Len(Requests) = 2
        /\ Len(SleepsFor("403")) = 1

\* C14 as the code has it: a URL that is forbidden at every attempt
\* causes max_retries requests in RedditPublicCollector.make_request, with
\* sleeps of 3 s and 6 s between them, max_retries requests in get_page,
\* each followed by a sleep of 5 s, and a single request in
\* CommentFetcher.make_request; each returns failure
C14_ForbiddenPerClass ==
    AllMet({"403"}) /\ result # "none" =>
        /\ result = "None"
        /\ fetcher = "public" =>
               Len(Requests) = max_retries /\ SleepsFor("403") = <<3, 6>>
        /\ fetcher = "html" =>
               Len(Requests) = max_retries /\ SleepsFor("403") = <<5, 5, 5>>
        /\ fetcher = "comments" =>
               Len(Requests) = 1 /\ SleepsFor("403") = <<>>

\* RedditPublicCollector.make_request has returned None for a URL that
\* was forbidden three times
C14_Witness ==
    /\ fetcher = "public" /\ result = "None"
    /\ AllMet({"403"}) /\ Len(Requests) = 3

\* C15: make_request returns failure on errors other than rate limit and
\* forbidden only after max_retries attempts, each but the last followed
\* by a fixed delay
C15_TransientRetried ==
    fetcher \in {"public", "comments"} /\ AllMet({"http", "error"})
        /\ result = "None" =>
            Len(Requests) = max_retries

\* C16: the k-th attempt that receives HTTP 429 is followed by a sleep of
\* k * base_backoff seconds, which grows with k, and by a retry when
\* attempts remain; max_retries rate limits in a row end in failure
C16_RateLimitBackoff ==
    /\ \A i \in DOMAIN log :
           log[i].type = "request" /\ log[i].outcome = "429" =>
               LET k == Len(SelectSeq(SubSeq(log, 1, i),
                                      LAMBDA e : e.type = "request"))
               IN /\ i < Len(log)
                  /\ log[i + 1] = Sleep("429", k * base_backoff(fetcher))
                  /\ k < max_retries /\ i + 1 = Len(log) => result = "none"
    /\ \A i, j \in DOMAIN SleepsFor("429") :
           i < j => SleepsFor("429")[i] < SleepsFor("429")[j]
    /\ AllMet({"429"}) /\ Len(Requests) = max_retries => result = "None"

\* CommentFetcher.make_request has been rate limited three times
C16_Witness ==
    /\ fetcher = "comments" /\ result = "None"
    /\ AllMet({"429"})
    /\ SleepsFor("429") = <<60, 120, 180>>

\* C17: every request, the first of the process included, comes right
\* after a delay
C17_DelayBeforeEveryRequest ==
    \A i \in DOMAIN log :
        log[i].type = "request" => i > 1 /\ log[i - 1].type = "sleep"

\* C18: an id recorded in the ledger of a sweep stays in it, so a post
\* returned again on a later page of the sweep is not appended a second
\* time to the result of the sweep
C18_NoRepeatInSweep ==
    IdSet(html_posts) \subseteq html_seen_ids /\ NoDup(html_posts)

\* C19: a normalizer returns None whenever the raw record has no id or no
\* title, and what it returns otherwise has both
C19_DropsIncomplete ==
    returned /\ normalizer \in PostNormalizers =>
        /\ raw.id = NoId \/ raw.title = "" => item = <<>>
        /\ item # <<>> => item[1].id # NoId /\ item[1].title # ""

\* the depth of the deepest node of a list of comments, -1 for no comment;
\* the comments of the list are at depth 0
RECURSIVE Deepest(_)
Deepest(comments) ==
    IF comments = <<>>
    THEN -1
    ELSE LET below == {Deepest(comments[i].replies) : i \in DOMAIN comments}
         IN 1 + CHOOSE m \in below : \A n \in below : n <= m

\* C20: the tree get_post_comments returns for the depth d has no node
\* deeper than d, top-level comments being at depth 0
C20_DepthBound ==
    returned /\ normalizer \in CommentNormalizers => Deepest(item) <= depth

\* a chain of comments nested three deep has been cut at depth 1
C20_Witness ==
    /\ returned /\ normalizer = "CommentFetcher.get_post_comments"
    /\ depth = 1
    /\ \E obj \in RawComments(MaxRawDepth) :
         /\ raw = <<obj>>
         /\ Deepest(ExtractEach(raw, 0, MaxRawDepth)) = MaxRawDepth
    /\ Deepest(item) = 1

\* C22: every item a collect_threads has accepted holds one of the
\* keywords of the topic in its title and body, whatever the case
C22_AcceptedAreRelevant ==
    \A i \in DOMAIN coll_threads : IsRelevant(coll_threads[i], Keywords)

\* C23: the collection of the PRAW collectors never has more items than
\* the target_count of the topic
C23_PrawStopsAtTarget ==
    collector \in {"RedditCollector", "RedditHealthCollector"} =>
        Len(coll_threads) <= topic_target_count

\* a thread without its comments
Uncommented(thread) == [thread EXCEPT !.comments = <<>>]

\* C28: while fetch_comments_for_file works on a file, its threads are the
\* threads it read, in the same order and equal in every field but the
\* comments, and a thread that was read with comments keeps them and is
\* never fetched for
C28_OnlyFillsReplies ==
    pc = "comments" =>
        /\ Len(threads) = Len(file_threads)
        /\ \A i \in DOMAIN file_threads :
             /\ Uncommented(threads[i]) = Uncommented(file_threads[i])
             /\ file_threads[i].comments # <<>> =>
                    /\ threads[i].comments = file_threads[i].comments
                    /\ i \notin fetched_for
        /\ \A i \in fetched_for : i \in DOMAIN file_threads

\* fetch_comments_for_file has been through a file that held a thread
\* with comments and a thread without, and fetched for the second
C28_Witness ==
    /\ pc = "comments" /\ needing = <<>>
    /\ fetched_for # {}
    /\ \E i \in DOMAIN file_threads : file_threads[i].comments # <<>>
    /\ \E i \in fetched_for : threads[i].comments # <<>>

\* C27: when main has ended, collect_threads was called for every topic
\* of DISEASE_AREAS, whatever happened to the topics before
C27_EveryTopicCollected ==
    main_pc = "exited" =>
        started = {DiseaseAreas[i] : i \in DOMAIN DiseaseAreas}

\* C29: a url that articles_metadata.json held when the scraper started
\* is neither requested over HTTP nor saved in the run
C29_RecordedNeverRefetched ==
    recorded_urls \cap (requested_urls \cup saved_urls) = {}

\* C30: collect_reddit_public exits with status 0 exactly when the
\* threads of all topics together are at least the threshold
C30_ExitStatus ==
    program = "collect_reddit_public" /\ main_pc = "exited" =>
        (exit_status = 0 <=> Sum(topic_counts) >= min_total_threads)

\* the ids of the items of ths, in order
IdsOf(ths) == [i \in DOMAIN ths |-> ths[i].id]

UnseenIn(k) ==
    UNION {PostIds(coll_pages[j].children) : j \in 1 .. k} \ coll_seen_ids

\* C24: the public collector requests a further page of a sweep only
\* while the pages it has fetched in the sweep do not hold enough unseen
\* records to reach the target
C24_MinimalPages ==
    collector = "RedditPublicCollector" =>
        \A k \in 1 .. (Len(coll_pages) - 1) :
            Len(coll_threads) + Cardinality(UnseenIn(k)) < topic_target_count

\* C26: after the failure of a sweep the items accepted so far are still
\* in the collection, and collect_threads returns only once it has turned
\* to every subreddit, unless it has reached the target
C26_FailureNotFatal ==
    /\ Prefix(kept, coll_threads)
    /\ failed \subseteq attempted
    /\ coll_sub > Len(Subreddits) =>
           \/ attempted = SubredditSet
           \/ /\ collector \in {"RedditPublicCollector", "RedditHTMLScraper"}
              /\ Len(coll_threads) >= topic_target_count

\* RedditHealthCollector.collect_threads has returned with an item of the
\* subreddit whose sweep failed and an item of the next subreddit
C26_Witness ==
    /\ collector = "RedditHealthCollector"
    /\ coll_sub > Len(Subreddits)
    /\ failed = {Subreddits[1]}
    /\ Len(coll_threads) = 2
    /\ coll_threads[1].subreddit = Subreddits[1]
    /\ coll_threads[2].subreddit = Subreddits[2]
    /\ kept = <<coll_threads[1]>>

\* the length of the longest list of a comment tree: the top level or the
\* replies of a comment
RECURSIVE Widest(_)
Widest(comments) ==
    LET lengths == {Len(comments)}
                       \cup {Widest(comments[i].replies) : i \in DOMAIN comments}
    IN CHOOSE m \in lengths : \A n \in lengths : n <= m

\* the raw objects of a list that are comments
CommentsOf(objs) == SelectSeq(objs, LAMBDA obj : obj.kind = "t1")

\* comments holds one comment for every raw comment of objs, and so do
\* its replies lists down to the given number of levels, below which the
\* replies are empty
RECURSIVE RepliesWhole(_, _, _)
RepliesWhole(objs, comments, levels) ==
    /\ Len(comments) = Len(CommentsOf(objs))
    /\ \A i \in DOMAIN comments :
           IF levels > 0
           THEN RepliesWhole(CommentsOf(objs)[i].replies,
                             comments[i].replies, levels - 1)
           ELSE comments[i].replies = <<>>

\* C21: no list of the tree get_post_comments returns for the limit N, the
\* top level or the replies of a comment, has more than N comments
C21_BreadthEverywhere ==
    returned /\ normalizer \in CommentNormalizers =>
        Widest(item) <= comment_limit

\* C21 as the code has it: the top level holds at most N comments, those
\* of the first N raw objects, and every replies list within the depth
\* holds all the comments upstream lists under the comment
C21_BreadthAtTopOnly ==
    returned /\ normalizer \in CommentNormalizers =>
        /\ Len(item) <= comment_limit
        /\ RepliesWhole(Take(raw, comment_limit), item, depth)

\* a comment with two replies upstream is returned with both
C21_Witness ==
    /\ returned /\ normalizer = "RedditPublicCollector.get_post_comments"
    /\ depth = 1
    /\ Len(raw) = 1 /\ raw[1] \in WideComments
    /\ Len(item) = 1 /\ Len(item[1].replies) > comment_limit

TypeOK ==
    /\ pc \in {"idle", "loop", "fetch", "process", "returned", "done",
              "crashed", "killed", "files", "comments", "cut", "fetched"}
    /\ \A f \in disk : f.kind \in Kinds /\ f.form \in Forms
    /\ seen_ids \subseteq Ids
    /\ processed \in Nat /\ last_save <= processed
    /\ fetcher \in Fetchers \cup {"none"}
    /\ attempt \in 0 .. max_retries
    /\ result \in {"none", "data", "None"}
    /\ html_pc \in {"none", "loop", "returned"}
    /\ html_page_count \in 0 .. scrape_max_pages
    /\ Len(html_posts) <= scrape_limit
    /\ returned \in BOOLEAN

====
